---------------------------- MODULE Spec2Model ----------------------------
(***************************************************************************)
(* Corporate event reconciliation: field normalisation, deduplication,     *)
(* confidence tiers, completeness ranking, the five year window and the    *)
(* pipelines that drive them (analysis/corporate_event, event_analyzer).   *)
(*                                                                         *)
(* Python values are records [t, s]: t is the Python type ("none", "str",  *)
(* "int", "list") and s the text as a sequence of one-character strings    *)
(* (for an int its decimal digits, for a list its items each followed by   *)
(* the item separator LS).  A dict is a function from its keys to values.  *)
(***************************************************************************)
EXTENDS Integers, Sequences, FiniteSets, TLC

\* ------------------------------------------------------------------------
\* Python values and the str methods the code calls
\* ------------------------------------------------------------------------

None == [t |-> "none", s |-> <<>>]

Str(chars) == [t |-> "str", s |-> chars]

PyInt(digits) == [t |-> "int", s |-> digits]

PyBool(b) ==
    [t |-> "bool", s |-> IF b THEN <<"T", "r", "u", "e">> ELSE <<"F", "a", "l", "s", "e">>]

LS == "|"

PyList(items) == [t |-> "list", s |-> items]

Digits == <<"0", "1", "2", "3", "4", "5", "6", "7", "8", "9">>

IsDigit(c) == \E i \in 1..10 : Digits[i] = c

DigitVal(c) == (CHOOSE i \in 1..10 : Digits[i] = c) - 1

IsSpace(c) == c \in {" ", "\t", "\n"}

UpperCase == <<"A", "B", "C", "D", "E", "F", "G", "H", "I", "J", "K", "L", "M",
               "N", "O", "P", "Q", "R", "S", "T", "U", "V", "W", "X", "Y", "Z">>

LowerCase == <<"a", "b", "c", "d", "e", "f", "g", "h", "i", "j", "k", "l", "m",
               "n", "o", "p", "q", "r", "s", "t", "u", "v", "w", "x", "y", "z">>

LowerChar(c) ==
    IF \E i \in 1..26 : UpperCase[i] = c
    THEN LowerCase[CHOOSE i \in 1..26 : UpperCase[i] = c]
    ELSE c

\* str.lower()
RECURSIVE lower(_)
lower(s) == IF s = <<>> THEN <<>> ELSE <<LowerChar(Head(s))>> \o lower(Tail(s))

\* str.strip()
RECURSIVE lstrip(_)
lstrip(s) == IF s # <<>> /\ IsSpace(Head(s)) THEN lstrip(Tail(s)) ELSE s

RECURSIVE rstrip(_)
rstrip(s) ==
    IF s # <<>> /\ IsSpace(s[Len(s)]) THEN rstrip(SubSeq(s, 1, Len(s) - 1)) ELSE s

strip(s) == rstrip(lstrip(s))

\* str.replace(c, "") for a one-character c
RECURSIVE remove_char(_, _)
remove_char(s, c) ==
    IF s = <<>> THEN <<>>
    ELSE IF Head(s) = c THEN remove_char(Tail(s), c)
    ELSE <<Head(s)>> \o remove_char(Tail(s), c)

\* needle in haystack
contains(hay, needle) ==
    \E i \in 1..(Len(hay) - Len(needle) + 1) :
        SubSeq(hay, i, i + Len(needle) - 1) = needle

\* bool(v): None, "", 0 and [] are falsy
truthy(v) ==
    CASE v.t = "none" -> FALSE
      [] v.t = "int" -> \E i \in 1..Len(v.s) : v.s[i] \notin {"0", "-"}
      [] OTHER -> v.s # <<>>

\* dict.get(key) and dict.get(key, default)
get(d, k) == IF k \in DOMAIN d THEN d[k] ELSE None

get_default(d, k, default) == IF k \in DOMAIN d THEN d[k] ELSE default

\* a or b with the fallback forgotten: a as it stands.
or_left(a, b) == a

\* a or b
or(a, b) == IF truthy(a) THEN a ELSE b

\* ------------------------------------------------------------------------
\* event_utils.clean_text
\* ------------------------------------------------------------------------

\* The items of a list value, in order.
RECURSIVE list_items(_)
list_items(s) ==
    IF s = <<>> THEN <<>>
    ELSE LET n == CHOOSE i \in 1..Len(s) :
                      s[i] = LS /\ \A j \in 1..(i - 1) : s[j] # LS
         IN <<SubSeq(s, 1, n - 1)>> \o list_items(SubSeq(s, n + 1, Len(s)))

\* " ".join(str(i).strip() for i in text if i)
RECURSIVE join_items(_)
join_items(items) ==
    IF items = <<>> THEN <<>>
    ELSE IF Head(items) = <<>> THEN join_items(Tail(items))
    ELSE LET rest == join_items(Tail(items))
             more == \E i \in 1..Len(Tail(items)) : Tail(items)[i] # <<>>
         IN strip(Head(items)) \o (IF more THEN <<" ">> ELSE <<>>) \o rest

\* re.sub(r"<[^>]+>", "", text): a "<", at least one character that is
\* not ">", and the first ">" after them.
RECURSIVE strip_html(_)
strip_html(s) ==
    IF s = <<>> THEN <<>>
    ELSE IF Head(s) = "<" /\ \E j \in 3..Len(s) :
                                  s[j] = ">" /\ \A k \in 2..(j - 1) : s[k] # ">"
    THEN LET j == CHOOSE j \in 3..Len(s) :
                      s[j] = ">" /\ \A k \in 2..(j - 1) : s[k] # ">"
         IN strip_html(SubSeq(s, j + 1, Len(s)))
    ELSE <<Head(s)>> \o strip_html(Tail(s))

\* re.sub(r"\s+", " ", text)
RECURSIVE collapse_spaces(_)
collapse_spaces(s) ==
    IF s = <<>> THEN <<>>
    ELSE IF IsSpace(Head(s))
    THEN <<" ">> \o collapse_spaces(lstrip(s))
    ELSE <<Head(s)>> \o collapse_spaces(Tail(s))

clean_text(text) ==
    LET joined == IF text.t = "list" THEN join_items(list_items(text.s))
                  ELSE IF text.t = "str" THEN text.s
                  ELSE IF truthy(text) THEN text.s
                  ELSE <<>>
    IN strip(collapse_spaces(strip_html(joined)))

\* ------------------------------------------------------------------------
\* State: the runtime, a caller of one function, a run of an entry point
\* ------------------------------------------------------------------------

VARIABLES
    strftime_pads,  \* whether the C library's strftime zero-pads %Y to 4 digits
    iso_basic,      \* whether fromisoformat reads YYYYMMDD (Python 3.11 on)
    call,           \* the function a caller has applied, "none" before the call
    arg,            \* its argument
    ret,            \* its result
    passed,         \* the argument as it was when the caller passed it
    again,          \* the results of the caller's further calls on the same argument
    pc,             \* where a run of an entry point stands, "idle" without one
    USE_VERIFIED_PIPELINE,  \* event_analyzer: the environment's switch
    OPENROUTER_API_KEY,     \* event_ai: whether the key is set
    years,          \* the years argument of generate_corporate_events
    period,         \* generate_verified_corporate_events: months and years asked
    all_events,     \* generate_verified_corporate_events: all_events
    raw_events,     \* _legacy_generate_corporate_events: events
    model,          \* position in the model list of the provider chain
    refined,        \* what refine_events_with_ai returned
    final,          \* the events the entry point returns
    returned,       \* _legacy_generate_corporate_events: what the sources returned
    raised,         \* the exception generate_verified_corporate_events raised
    invoked,        \* the providers a fallback chain has invoked, with the outcome
    news,           \* generate_verified_events_ai: relevant
    item,           \* generate_verified_events_ai: position in relevant
    structured_events   \* generate_verified_events_ai: structured_events

runtime == <<strftime_pads, iso_basic>>

caller == <<call, arg, ret, passed, again>>

config == <<USE_VERIFIED_PIPELINE, OPENROUTER_API_KEY, years>>

run == <<pc, period, all_events, raw_events, model, refined, final,
         returned, raised, invoked>>

extraction == <<news, item, structured_events>>

vars == <<runtime, caller, config, run, extraction>>

\* No entry point is running.
NoRun ==
    /\ pc = "idle"
    /\ USE_VERIFIED_PIPELINE = FALSE /\ OPENROUTER_API_KEY = FALSE /\ years = 5
    /\ period = 0 /\ all_events = <<>> /\ raw_events = <<>> /\ model = 1
    /\ refined = <<>> /\ final = <<>>
    /\ returned = <<>> /\ raised = "none" /\ invoked = <<>>
    /\ news = <<>> /\ item = 0 /\ structured_events = <<>>

\* ------------------------------------------------------------------------
\* datetime.strptime, strftime and fromisoformat as normalize_date uses them
\* ------------------------------------------------------------------------

Unknown == <<"U", "n", "k", "n", "o", "w", "n">>

\* The C locale's month names, lower-cased (strptime ignores case).
MonthNames ==
    <<<<"j", "a", "n", "u", "a", "r", "y">>,
      <<"f", "e", "b", "r", "u", "a", "r", "y">>,
      <<"m", "a", "r", "c", "h">>,
      <<"a", "p", "r", "i", "l">>,
      <<"m", "a", "y">>,
      <<"j", "u", "n", "e">>,
      <<"j", "u", "l", "y">>,
      <<"a", "u", "g", "u", "s", "t">>,
      <<"s", "e", "p", "t", "e", "m", "b", "e", "r">>,
      <<"o", "c", "t", "o", "b", "e", "r">>,
      <<"n", "o", "v", "e", "m", "b", "e", "r">>,
      <<"d", "e", "c", "e", "m", "b", "e", "r">>>>

NoParse == [Y |-> 0, m |-> 0, d |-> 0]

\* The readings <<value, length>> of a numeric directive at position p.
NumberAt(dir, s, p) ==
    LET dig(i) == i <= Len(s) /\ IsDigit(s[i])
        one == IF dig(p) THEN {<<DigitVal(s[p]), 1>>} ELSE {}
        two == IF dig(p) /\ dig(p + 1)
               THEN {<<10 * DigitVal(s[p]) + DigitVal(s[p + 1]), 2>>} ELSE {}
        pad == IF p <= Len(s) /\ s[p] = " " /\ dig(p + 1)
               THEN {<<DigitVal(s[p + 1]), 2>>} ELSE {}
        four == IF dig(p) /\ dig(p + 1) /\ dig(p + 2) /\ dig(p + 3)
                THEN {<<1000 * DigitVal(s[p]) + 100 * DigitVal(s[p + 1])
                          + 10 * DigitVal(s[p + 2]) + DigitVal(s[p + 3]), 4>>}
                ELSE {}
    IN CASE dir = "%Y" -> four
         [] dir = "%m" -> {o \in one \cup two : o[1] \in 1..12}
         [] dir = "%d" -> {o \in one \cup two \cup pad : o[1] \in 1..31}
         [] dir = "%H" -> {o \in one \cup two : o[1] \in 0..23}
         [] dir = "%M" -> {o \in one \cup two : o[1] \in 0..59}
         [] dir = "%S" -> {o \in one \cup two : o[1] \in 0..59}

\* The readings <<month, length>> of %b (abbreviated) or %B (full) at p.
MonthAt(dir, s, p) ==
    {<<k, n>> \in (1..12) \X (3..9) :
        /\ p + n - 1 <= Len(s)
        /\ n = IF dir = "%b" THEN 3 ELSE Len(MonthNames[k])
        /\ lower(SubSeq(s, p, p + n - 1)) = SubSeq(MonthNames[k], 1, n)}

\* Every way format items i.. match the whole of s from position p on.
RECURSIVE MatchFrom(_, _, _, _, _)
MatchFrom(fmt, i, s, p, acc) ==
    IF i > Len(fmt) THEN (IF p > Len(s) THEN {acc} ELSE {})
    ELSE LET it == fmt[i]
         IN CASE it \in {"%Y", "%m", "%d", "%H", "%M", "%S"} ->
                   UNION {MatchFrom(fmt, i + 1, s, p + o[2],
                                    IF it = "%Y" THEN [acc EXCEPT !.Y = o[1]]
                                    ELSE IF it = "%m" THEN [acc EXCEPT !.m = o[1]]
                                    ELSE IF it = "%d" THEN [acc EXCEPT !.d = o[1]]
                                    ELSE acc) : o \in NumberAt(it, s, p)}
              [] it = "%a" ->
                   IF p + 2 <= Len(s)
                      /\ lower(SubSeq(s, p, p + 2)) \in
                             {<<"m", "o", "n">>, <<"t", "u", "e">>, <<"w", "e", "d">>,
                              <<"t", "h", "u">>, <<"f", "r", "i">>, <<"s", "a", "t">>,
                              <<"s", "u", "n">>}
                   THEN MatchFrom(fmt, i + 1, s, p + 3, acc)
                   ELSE {}
              [] it = "%Z" ->
                   IF p + 2 <= Len(s)
                      /\ lower(SubSeq(s, p, p + 2)) \in {<<"u", "t", "c">>, <<"g", "m", "t">>}
                   THEN MatchFrom(fmt, i + 1, s, p + 3, acc)
                   ELSE {}
              [] it \in {"%b", "%B"} ->
                   UNION {MatchFrom(fmt, i + 1, s, p + o[2], [acc EXCEPT !.m = o[1]])
                            : o \in MonthAt(it, s, p)}
              [] it = " " ->
                   UNION {MatchFrom(fmt, i + 1, s, p + n, acc) :
                            n \in {n \in 1..(Len(s) - p + 1) :
                                     \A j \in p..(p + n - 1) : IsSpace(s[j])}}
              [] OTHER ->
                   IF p <= Len(s) /\ s[p] = it
                   THEN MatchFrom(fmt, i + 1, s, p + 1, acc)
                   ELSE {}

IsLeap(y) == y % 4 = 0 /\ (y % 100 # 0 \/ y % 400 = 0)

DaysInMonth(y, m) ==
    IF m = 2 THEN (IF IsLeap(y) THEN 29 ELSE 28)
    ELSE IF m \in {4, 6, 9, 11} THEN 30 ELSE 31

\* datetime(y, m, d) accepts the date
ValidDate(r) == r.Y >= 1 /\ r.m \in 1..12 /\ r.d \in 1..DaysInMonth(r.Y, r.m)

\* datetime.strptime(s, fmt): the date read, or NoParse for ValueError
strptime(s, fmt) ==
    LET found == {r \in MatchFrom(fmt, 1, s, 1, NoParse) : ValidDate(r)}
    IN IF found = {} THEN NoParse ELSE CHOOSE r \in found : TRUE

RECURSIVE IntToDigits(_)
IntToDigits(n) ==
    IF n < 10 THEN <<Digits[n + 1]>>
    ELSE IntToDigits(n \div 10) \o <<Digits[(n % 10) + 1]>>

RECURSIVE ZeroPad(_, _)
ZeroPad(ds, width) == IF Len(ds) >= width THEN ds ELSE ZeroPad(<<"0">> \o ds, width)

\* datetime.strftime("%Y-%m-%d"): %Y is the C library's, which on glibc
\* does not pad a year below 1000.
strftime(r) ==
    (IF strftime_pads THEN ZeroPad(IntToDigits(r.Y), 4) ELSE IntToDigits(r.Y))
        \o <<"-">> \o ZeroPad(IntToDigits(r.m), 2)
        \o <<"-">> \o ZeroPad(IntToDigits(r.d), 2)

\* str(date): date.isoformat() always pads
isoformat(r) ==
    ZeroPad(IntToDigits(r.Y), 4) \o <<"-">> \o ZeroPad(IntToDigits(r.m), 2)
        \o <<"-">> \o ZeroPad(IntToDigits(r.d), 2)

\* date_str.split("T")[0]
RECURSIVE split_T(_)
split_T(s) ==
    IF s = <<>> \/ Head(s) = "T" THEN <<>> ELSE <<Head(s)>> \o split_T(Tail(s))

\* datetime.fromisoformat(s): YYYY-MM-DD (from Python 3.11 on also YYYYMMDD),
\* alone or followed by one separator character and HH, HH:MM or HH:MM:SS;
\* NoParse for ValueError.
fromisoformat(s) ==
    LET two(p) == p + 1 <= Len(s) /\ IsDigit(s[p]) /\ IsDigit(s[p + 1])
        val(p) == 10 * DigitVal(s[p]) + DigitVal(s[p + 1])
        extended == /\ Len(s) >= 10
                    /\ NumberAt("%Y", s, 1) # {}
                    /\ s[5] = "-" /\ two(6) /\ s[8] = "-" /\ two(9)
        basic == /\ iso_basic /\ ~extended
                 /\ Len(s) >= 8
                 /\ NumberAt("%Y", s, 1) # {} /\ two(5) /\ two(7)
        n == IF extended THEN 10 ELSE 8
        time_ok == \/ Len(s) = n
                   \/ Len(s) = n + 3 /\ two(n + 2) /\ val(n + 2) <= 23
                   \/ Len(s) = n + 6 /\ two(n + 2) /\ val(n + 2) <= 23
                        /\ s[n + 4] = ":" /\ two(n + 5) /\ val(n + 5) <= 59
                   \/ Len(s) = n + 9 /\ two(n + 2) /\ val(n + 2) <= 23
                        /\ s[n + 4] = ":" /\ two(n + 5) /\ val(n + 5) <= 59
                        /\ s[n + 7] = ":" /\ two(n + 8) /\ val(n + 8) <= 59
        r == [Y |-> (CHOOSE o \in NumberAt("%Y", s, 1) : TRUE)[1],
              m |-> IF extended THEN val(6) ELSE val(5),
              d |-> IF extended THEN val(9) ELSE val(7)]
    IN IF (extended \/ basic) /\ time_ok /\ ValidDate(r) THEN r ELSE NoParse

\* ------------------------------------------------------------------------
\* event_utils.normalize_date
\* ------------------------------------------------------------------------

formats ==
    << <<"%Y", "-", "%m", "-", "%d">>,
       <<"%d", "-", "%m", "-", "%Y">>,
       <<"%d", "/", "%m", "/", "%Y">>,
       <<"%b", " ", "%d", " ", "%Y">>,
       <<"%B", " ", "%d", " ", "%Y">>,
       <<"%d", " ", "%b", " ", "%Y">>,
       <<"%d", " ", "%B", " ", "%Y">>,
       <<"%Y", "-", "%m", "-", "%d", "T", "%H", ":", "%M", ":", "%S">>,
       <<"%Y", "-", "%m", "-", "%d", " ", "%H", ":", "%M", ":", "%S">> >>

\* The for loop over formats, from format i on: the first that parses wins.
RECURSIVE try_formats(_, _)
try_formats(s, i) ==
    IF i > Len(formats)
    THEN LET r == fromisoformat(split_T(s))
         IN IF r = NoParse THEN Unknown ELSE isoformat(r)
    ELSE LET r == strptime(s, formats[i])
         IN IF r = NoParse THEN try_formats(s, i + 1) ELSE strftime(r)

\* normalize_date(date_str) for any Python value; the result is a str.
normalize_date(date_str) ==
    IF ~truthy(date_str) \/ date_str.t # "str" THEN Unknown
    ELSE try_formats(remove_char(remove_char(strip(date_str.s), "·"), ","), 1)

\* ------------------------------------------------------------------------
\* event_utils.deduplicate_events
\* ------------------------------------------------------------------------

Empty == Str(<<>>)

\* A key that compares the title and the source as they are spelt, letter
\* case included.
dedup_key_cased(e) ==
    <<clean_text(or(or(get(e, "title"), get(e, "description")), Empty)),
      get_default(e, "date", Str(Unknown)),
      clean_text(or(get(e, "source"), Empty))>>

\* The key of lines 49-53: cleaned lower-case title (or description), the
\* date as it stands in the event, cleaned lower-case source.
dedup_key(e) ==
    <<lower(clean_text(or(or(get(e, "title"), get(e, "description")), Empty))),
      get_default(e, "date", Str(Unknown)),
      lower(clean_text(or(get(e, "source"), Empty)))>>

\* A loop in which the last event of a key wins instead of the first.
dedup_last_wins(events, i, seen) ==
    LET keep == {k \in i..Len(events) :
                   \A j \in (k + 1)..Len(events) :
                       dedup_key(events[j]) # dedup_key(events[k])}
    IN [n \in 1..Cardinality(keep) |->
          events[CHOOSE k \in keep : Cardinality({j \in keep : j <= k}) = n]]

\* The for loop of deduplicate_events from event i on, with the keys seen.
RECURSIVE dedup_from(_, _, _)
dedup_from(events, i, seen) ==
    IF i > Len(events) THEN <<>>
    ELSE LET key == dedup_key(events[i])
         IN IF key \notin seen
            THEN <<events[i]>> \o dedup_from(events, i + 1, seen \cup {key})
            ELSE dedup_from(events, i + 1, seen)

deduplicate_events(events) == dedup_from(events, 1, {})

\* ------------------------------------------------------------------------
\* event_utils.sort_events
\* ------------------------------------------------------------------------

NA == <<"N", "/", "A">>

Other == <<"O", "t", "h", "e", "r">>

Undisclosed == <<"U", "n", "d", "i", "s", "c", "l", "o", "s", "e", "d">>

NotAvailable == <<"N", "o", "t", " ", "a", "v", "a", "i", "l", "a", "b", "l", "e">>

\* The en dash U+2013, one character, written as the atom "ndash".
Dash == <<"ndash">>

\* x in [..] for a list of str literals
is_in(v, strs) == v.t = "str" /\ v.s \in strs

completeness_score(e) ==
    (IF ~is_in(get(e, "date"), {Unknown, NA}) THEN 3 ELSE 0)
    + (IF ~(is_in(get(e, "event_type"), {Unknown, Other})
            \/ get(e, "event_type") = None) THEN 2 ELSE 0)
    + (IF ~is_in(get(e, "counterparty"), {Unknown, NotAvailable, <<>>}) THEN 1 ELSE 0)
    + (IF ~is_in(get(e, "amount"), {NotAvailable, Unknown, Dash}) THEN 1 ELSE 0)

\* e["_sort_date"] as the number yyyymmdd; datetime.min is 0001-01-01 (also
\* for the KeyError of a missing date and the TypeError of a non-str date).
sort_date(e) ==
    LET v == get(e, "date")
        r == IF "date" \in DOMAIN e /\ v.t = "str" /\ ~is_in(v, {Unknown, NA})
             THEN fromisoformat(v.s) ELSE NoParse
    IN IF r = NoParse THEN 10101 ELSE r.Y * 10000 + r.m * 100 + r.d

\* A descending sort that puts an index before the earlier ones of equal key.
RECURSIVE sorted_desc_unstable(_, _, _)
sorted_desc_unstable(keys, i, acc) ==
    IF i > Len(keys) THEN acc
    ELSE LET n == Cardinality({j \in 1..Len(acc) :
                     \A k \in 1..j : keys[acc[k]] > keys[i]})
         IN sorted_desc_unstable(keys, i + 1,
                        SubSeq(acc, 1, n) \o <<i>> \o SubSeq(acc, n + 1, Len(acc)))

\* sorted(range(n), key=keys, reverse=True) as a sequence of indices: stable,
\* so an index goes behind every earlier one whose key is not smaller.
RECURSIVE sorted_desc(_, _, _)
sorted_desc(keys, i, acc) ==
    IF i > Len(keys) THEN acc
    ELSE LET n == Cardinality({j \in 1..Len(acc) :
                     \A k \in 1..j : keys[acc[k]] >= keys[i]})
         IN sorted_desc(keys, i + 1,
                        SubSeq(acc, 1, n) \o <<i>> \o SubSeq(acc, n + 1, Len(acc)))

\* The key (completeness_score(e), e["_sort_date"]) as one number.
sort_key(e) == completeness_score(e) * 100000000 + sort_date(e)

RECURSIVE sort_keys(_)
sort_keys(events) ==
    IF events = <<>> THEN <<>> ELSE <<sort_key(Head(events))>> \o sort_keys(Tail(events))

\* The events in the order of the indices.
RECURSIVE in_order(_, _)
in_order(events, order) ==
    IF order = <<>> THEN <<>>
    ELSE <<events[Head(order)]>> \o in_order(events, Tail(order))

sort_events(events) == in_order(events, sorted_desc(sort_keys(events), 1, <<>>))

\* ------------------------------------------------------------------------
\* event_utils.merge_and_clean_events
\* ------------------------------------------------------------------------

core_text(evt) ==
    clean_text(or(or(or(get(evt, "title"), get(evt, "description")),
                     get(evt, "event_name")), Empty))

\* The dict of lines 73-85 for one raw event.
cleaned_event(evt) ==
    LET title == core_text(evt)
    IN [date |-> Str(normalize_date(Str(clean_text(or(get(evt, "date"), Empty))))),
        title |-> Str(title),
        description |-> Str(clean_text(or(get(evt, "description"), Str(title)))),
        event_type |-> Str(clean_text(or(or(get(evt, "event_type"), get(evt, "type")),
                                         Str(Other)))),
        counterparty |-> Str(clean_text(or(or(or(get(evt, "counterparty"),
                                                  get(evt, "other_party")),
                                               get(evt, "counter_party")), Empty))),
        amount |-> Str(clean_text(or(or(or(get(evt, "amount"), get(evt, "investment")),
                                        get(evt, "value")), Str(Undisclosed)))),
        enterprise_value |-> Str(clean_text(or(get(evt, "enterprise_value"),
                                               Str(NotAvailable)))),
        advisors |-> Str(clean_text(or(get(evt, "advisors"), Str(NA)))),
        source |-> Str(clean_text(or(get(evt, "source"), Str(Unknown)))),
        url |-> Str(clean_text(or(or(get(evt, "url"), get(evt, "link")), Empty))),
        confidence |-> get_default(evt, "confidence", Str(<<"C">>))]

\* The for loop of lines 68-85: events without core text are skipped.
RECURSIVE clean_all(_)
clean_all(events) ==
    IF events = <<>> THEN <<>>
    ELSE (IF core_text(Head(events)) \in {<<>>, Unknown}
          THEN <<>> ELSE <<cleaned_event(Head(events))>>)
         \o clean_all(Tail(events))

\* cleaned = deduplicate_events(cleaned); return sort_events(cleaned).  The
\* bound variables hold each intermediate list.
merge_and_clean_events(events) ==
    CHOOSE out \in {sort_events(unique) :
                      unique \in {deduplicate_events(cleaned) :
                                    cleaned \in {clean_all(events)}}} : TRUE

\* ------------------------------------------------------------------------
\* event_utils.validate_event_confidence
\* ------------------------------------------------------------------------

\* str(v)
py_str(v) == IF v.t = "none" THEN <<"N", "o", "n", "e">> ELSE v.s

\* The first list of markers without reuters.
TierA_NoReuters == {<<"g", "e", "m", "i", "n", "i">>, <<"f", "i", "n", "n", "h", "u", "b">>, <<"s", "e", "c">>, <<"b", "l", "o", "o", "m", "b", "e", "r", "g">>}

TierA == {<<"g", "e", "m", "i", "n", "i">>, <<"f", "i", "n", "n", "h", "u", "b">>, <<"s", "e", "c">>, <<"r", "e", "u", "t", "e", "r", "s">>, <<"b", "l", "o", "o", "m", "b", "e", "r", "g">>}

TierB == {<<"p", "r", "n", "e", "w", "s", "w", "i", "r", "e">>, <<"b", "u", "s", "i", "n", "e", "s", "s", "w", "i", "r", "e">>, <<"c", "n", "b", "c">>, <<"f", "o", "r", "b", "e", "s">>}

confidence_of(e) ==
    LET source == lower(py_str(get_default(e, "source", Empty)))
    IN IF is_in(get(e, "confidence"), {<<"A">>, <<"B">>, <<"C">>})
       THEN get(e, "confidence")
       ELSE IF \E x \in TierA : contains(source, x) THEN Str(<<"A">>)
       ELSE IF \E x \in TierB : contains(source, x) THEN Str(<<"B">>)
       ELSE Str(<<"C">>)

\* e["confidence"] = c
set_confidence(e, c) ==
    IF "confidence" \in DOMAIN e THEN [e EXCEPT !.confidence = c]
    ELSE e @@ [k \in {"confidence"} |-> c]

RECURSIVE validate_event_confidence(_)
validate_event_confidence(events) ==
    IF events = <<>> THEN <<>>
    ELSE <<set_confidence(Head(events), confidence_of(Head(events)))>>
         \o validate_event_confidence(Tail(events))

\* ------------------------------------------------------------------------
\* event_analyzer.sort_events
\* ------------------------------------------------------------------------

analyzer_score(e) ==
    (IF ~is_in(get(e, "date"), {Unknown, NA}) THEN 3 ELSE 0)
    + (IF ~(is_in(get(e, "event_type"), {Unknown, <<>>})
            \/ get(e, "event_type") = None) THEN 2 ELSE 0)
    + (IF ~is_in(get(e, "counterparty"), {Unknown, <<>>}) THEN 1 ELSE 0)
    + (IF ~is_in(get(e, "amount"), {Dash, Unknown, NotAvailable}) THEN 1 ELSE 0)

RECURSIVE analyzer_keys(_)
analyzer_keys(events) ==
    IF events = <<>> THEN <<>>
    ELSE <<analyzer_score(Head(events))>> \o analyzer_keys(Tail(events))

analyzer_sort_events(events) ==
    in_order(events, sorted_desc(analyzer_keys(events), 1, <<>>))

\* ------------------------------------------------------------------------
\* event_ai._is_within_last_5_years
\* ------------------------------------------------------------------------

CurrentYear == 2025

RECURSIVE digits_value(_, _)
digits_value(ds, acc) ==
    IF ds = <<>> THEN acc
    ELSE digits_value(Tail(ds), IF Head(ds) = "_" THEN acc ELSE 10 * acc + DigitVal(Head(ds)))

\* int(s): [ok, val]; ok is FALSE for ValueError.  Surrounding whitespace, a
\* sign and single underscores between digits are accepted.
py_int(s) ==
    LET body == strip(s)
        signed == body # <<>> /\ Head(body) \in {"+", "-"}
        ds == IF signed THEN Tail(body) ELSE body
        ok == /\ ds # <<>>
              /\ IsDigit(ds[1]) /\ IsDigit(ds[Len(ds)])
              /\ \A i \in 1..Len(ds) : IsDigit(ds[i]) \/ ds[i] = "_"
              /\ \A i \in 1..(Len(ds) - 1) : ~(ds[i] = "_" /\ ds[i + 1] = "_")
    IN IF ~ok THEN [ok |-> FALSE, val |-> 0]
       ELSE [ok |-> TRUE,
             val |-> IF signed /\ Head(body) = "-" THEN 0 - digits_value(ds, 0)
                     ELSE digits_value(ds, 0)]

\* date_str[:4]
first4(s) == SubSeq(s, 1, IF Len(s) < 4 THEN Len(s) ELSE 4)

\* A value that is not a str (None, an int) makes the slice or int() raise,
\* and the bare except returns True.
_is_within_last_5_years(date_str) ==
    IF date_str.t # "str" THEN TRUE
    ELSE LET y == py_int(first4(date_str.s))
         IN IF y.ok THEN y.val >= CurrentYear - 5 ELSE TRUE

\* ------------------------------------------------------------------------
\* Callers of the date functions: one date value, one call
\* ------------------------------------------------------------------------

YearTexts == {<<"0", "9", "9", "9">>, <<"2", "0", "1", "5">>, <<"2", "0", "2", "0">>, <<"2", "0", "2", "4">>}

MonthTexts == {<<"0", "2">>, <<"3">>, <<"1", "3">>}

DayTexts == {<<"0", "1">>, <<"2", "9">>, <<"3", "1">>}

MonthWords == {<<"M", "a", "r">>, <<"m", "a", "r", "c", "h">>, <<"M", "a", "y">>, <<"S", "e", "p", "t">>}

TimeTexts == {<<>>, <<"T", "1", "0", ":", "0", "0", ":", "0", "0">>, <<"T", "1", "0", ":", "0", "0", ":", "0", "0", "Z">>, <<" ", "1", "0", ":", "0", "0", ":", "0", "0">>, <<" ", "1", "0", ":", "0", "0">>}

DateTexts ==
    {y \o <<"-">> \o m \o <<"-">> \o d \o tm :
        y \in YearTexts, m \in MonthTexts, d \in DayTexts, tm \in TimeTexts}
    \cup {d \o <<sep>> \o m \o <<sep>> \o y :
        y \in YearTexts, m \in MonthTexts, d \in DayTexts, sep \in {"-", "/"}}
    \cup {w \o <<" ">> \o d \o <<",", " ">> \o y :
        y \in YearTexts, w \in MonthWords, d \in DayTexts}
    \cup {d \o <<" ">> \o w \o <<" ">> \o y :
        y \in YearTexts, w \in MonthWords, d \in DayTexts}
    \cup {w \o <<" ">> \o y : y \in YearTexts, w \in MonthWords}
    \cup YearTexts
    \cup {<<>>, <<" ">>, NA, Unknown, <<"N", "o", "t", " ", "A", " ", "D", "a", "t", "e">>, <<" ", "2", "0", "2", "4", "-", "0", "2", "-", "2", "9", " ">>, <<"2", "0", "2", "4", "·", "0", "2", "·", "2", "9">>,
          <<" ", "2", "0", "1">>, <<"2", "0", "_", "1">>, <<"-", "2", "0", "2", "4">>}

DateValues ==
    {Str(s) : s \in DateTexts} \cup {None, PyInt(<<"2", "0", "2", "4">>), PyInt(<<"0">>)}

InitDate ==
    /\ strftime_pads \in BOOLEAN
    /\ iso_basic \in BOOLEAN
    /\ call = "none"
    /\ arg \in DateValues
    /\ ret = None
    /\ passed = arg /\ again = <<>>
    /\ NoRun

CallNormalizeDate ==
    /\ call = "none"
    /\ arg \in DateValues
    /\ call' = "normalize_date"
    /\ ret' = Str(normalize_date(arg))
    /\ UNCHANGED <<runtime, arg, passed, again, config, run, extraction>>

CallIsWithin ==
    /\ call = "none"
    /\ arg \in DateValues
    /\ call' = "_is_within_last_5_years"
    /\ ret' = PyBool(_is_within_last_5_years(arg))
    /\ UNCHANGED <<runtime, arg, passed, again, config, run, extraction>>

NextDate == CallNormalizeDate \/ CallIsWithin

SpecDate == InitDate /\ [][NextDate]_vars

\* ------------------------------------------------------------------------
\* Callers of the reconciliation functions: one list of raw records, one call
\* ------------------------------------------------------------------------

\* Marks a key the raw record does not have.
Absent == [t |-> "absent", s |-> <<>>]

\* The dict with the keys of kv whose value is not Absent.
dict(kv) == [k \in {k \in DOMAIN kv : kv[k] # Absent} |-> kv[k]]

Deal == Str(<<"D", "e", "a", "l">>)

\* Records with core text whose date, type and amount aliases are each
\* absent, None or "".
BlankRecords ==
    {dict([title |-> Deal, date |-> d, event_type |-> t1, type |-> t2,
           amount |-> a1, investment |-> a2, value |-> a3]) :
        d \in {Absent, None, Empty}, t1 \in {Absent, None, Empty},
        t2 \in {Absent, None, Empty}, a1 \in {Absent, None, Empty},
        a2 \in {Absent, None, Empty}, a3 \in {Absent, None, Empty}}

\* Values of one field: absent, whitespace only, markup only, a list, text.
FieldTexts ==
    {Absent, Str(<<" ">>), Str(<<"<", "b", "r", "/", ">">>),
     PyList(<<"A", "c", "m", "e", "|">>), Str(<<"A", "c", "m", "e">>)}

\* Records that vary the aliases of one field at a time.
FieldRecords ==
    {dict([title |-> Deal, counterparty |-> a, other_party |-> b, counter_party |-> c]) :
        a \in FieldTexts, b \in FieldTexts, c \in FieldTexts}
    \cup {dict([title |-> Deal, event_type |-> a, type |-> b]) :
            a \in FieldTexts, b \in FieldTexts}
    \cup {dict([title |-> Deal, amount |-> a, investment |-> b, value |-> c]) :
            a \in FieldTexts, b \in FieldTexts, c \in FieldTexts}

\* {"description": "Acquired Widget Corp", "date": "2024-03-01", "source": "Reuters"}
Scenario1 ==
    [description |-> Str(<<"A", "c", "q", "u", "i", "r", "e", "d", " ", "W", "i", "d", "g", "e", "t", " ", "C", "o", "r", "p">>),
     date |-> Str(<<"2", "0", "2", "4", "-", "0", "3", "-", "0", "1">>),
     source |-> Str(<<"R", "e", "u", "t", "e", "r", "s">>)]

\* Records that vary the source and the confidence they arrive with.
ConfidenceRecords ==
    {dict([description |-> Str(<<"A", "c", "q", "u", "i", "r", "e", "d", " ", "W", "i", "d", "g", "e", "t", " ", "C", "o", "r", "p">>), source |-> s, confidence |-> c]) :
        s \in {Absent, None, Str(<<"R", "e", "u", "t", "e", "r", "s">>), Str(<<"P", "R", "N", "e", "w", "s", "w", "i", "r", "e">>), Str(<<"A", " ", "B", "l", "o", "g">>)},
        c \in {Absent, None, Str(<<"A">>), Str(<<"C">>), Str(<<"b">>), Str(<<"H", "i", "g", "h">>)}}
    \cup {Scenario1}

\* Records that meet in a dedup key or miss each other by one part of it:
\* letter case, markup, whitespace, the date format, the source, the field
\* the text arrives in; and two records without core text.
KeyRecords ==
    {[title |-> Str(<<"A", "c", "m", "e", " ", "B", "u", "y", "s", " ", "W", "i", "d", "g", "e", "t">>), date |-> Str(<<"2", "0", "2", "4", "-", "0", "3", "-", "0", "1">>), source |-> Str(<<"R", "e", "u", "t", "e", "r", "s">>)],
     [description |-> Str(<<"a", "c", "m", "e", " ", " ", "b", "u", "y", "s", " ", "<", "b", ">", "w", "i", "d", "g", "e", "t", "<", "/", "b", ">">>), date |-> Str(<<"0", "1", "-", "0", "3", "-", "2", "0", "2", "4">>),
      source |-> Str(<<"R", "E", "U", "T", "E", "R", "S">>), amount |-> Str(<<"$", "5", "M">>)],
     [event_name |-> Str(<<"A", "C", "M", "E", " ", "B", "U", "Y", "S", " ", "W", "I", "D", "G", "E", "T">>), date |-> Str(<<"M", "a", "r", "c", "h", " ", "1", ",", " ", "2", "0", "2", "4">>),
      source |-> Str(<<" ", "R", "e", "u", "t", "e", "r", "s", " ">>), event_type |-> Str(<<"M", "&", "A">>), counterparty |-> Str(<<"W", "i", "d", "g", "e", "t">>)],
     [title |-> Str(<<"A", "c", "m", "e", " ", "B", "u", "y", "s", " ", "W", "i", "d", "g", "e", "t">>), date |-> Str(<<"2", "0", "2", "4", "-", "0", "3", "-", "0", "1">>), source |-> Str(<<"B", "l", "o", "o", "m", "b", "e", "r", "g">>)],
     [title |-> Str(<<"A", "c", "m", "e", " ", "B", "u", "y", "s", " ", "W", "i", "d", "g", "e", "t">>), date |-> Str(<<"2", "0", "2", "3">>), source |-> Str(<<"R", "e", "u", "t", "e", "r", "s">>),
      type |-> Str(<<"M", "&", "A">>), other_party |-> Str(<<"W", "i", "d", "g", "e", "t">>), value |-> Str(<<"$", "5", "M">>)],
     [title |-> Str(<<"U", "n", "k", "n", "o", "w", "n">>), date |-> Str(<<"2", "0", "2", "4", "-", "0", "3", "-", "0", "1">>), source |-> Str(<<"R", "e", "u", "t", "e", "r", "s">>)],
     [title |-> Empty, description |-> None, date |-> Str(<<"2", "0", "2", "4", "-", "0", "3", "-", "0", "1">>)]}

\* Records that vary what each alias of the core text holds: absent, None,
\* whitespace only, markup only, a list, text.
CoreTextRecords ==
    {dict([title |-> a, description |-> b, event_name |-> c]) :
        a \in FieldTexts \cup {None}, b \in FieldTexts \cup {None},
        c \in FieldTexts \cup {None}}

MaxEvents == 3

RECURSIVE lists_over(_, _)
lists_over(S, n) ==
    IF n = 0 THEN {<<>>}
    ELSE LET shorter == lists_over(S, n - 1)
         IN shorter \cup {<<r>> \o l : r \in S, l \in {l \in shorter : Len(l) = n - 1}}

EventLists ==
    lists_over(KeyRecords, MaxEvents)
    \cup {<<r>> : r \in BlankRecords \cup FieldRecords \cup ConfidenceRecords
                        \cup CoreTextRecords}

\* ------------------------------------------------------------------------
\* event_scraper, event_finnhub, event_google_news: the source adapters.
\* Each takes what the remote service answered, decoded, and builds the raw
\* records.
\* ------------------------------------------------------------------------

MIN_YEAR_LIMIT == CurrentYear - 5

\* datetime.utcfromtimestamp(ts): the date of ts seconds after 1970-01-01.
utcfromtimestamp(ts) ==
    LET z == (ts \div 86400) + 719468
        era == z \div 146097
        doe == z - era * 146097
        yoe == (doe - doe \div 1460 + doe \div 36524 - doe \div 146096) \div 365
        doy == doe - (365 * yoe + yoe \div 4 - yoe \div 100)
        mp == (5 * doy + 2) \div 153
        m == IF mp < 10 THEN mp + 3 ELSE mp - 9
    IN [Y |-> yoe + era * 400 + (IF m <= 2 THEN 1 ELSE 0),
        m |-> m,
        d |-> doy - (153 * mp + 2) \div 5 + 1]

_is_valid_event(title) ==
    LET positive_keywords ==
            {<<"a", "c", "q", "u", "i", "r", "e">>,
             <<"a", "c", "q", "u", "i", "s", "i", "t", "i", "o", "n">>,
             <<"m", "e", "r", "g", "e", "r">>, <<"i", "n", "v", "e", "s", "t">>,
             <<"i", "n", "v", "e", "s", "t", "m", "e", "n", "t">>, <<"s", "e", "l", "l">>,
             <<"d", "i", "v", "e", "s", "t">>, <<"s", "p", "i", "n">>, <<"s", "t", "a", "k", "e">>,
             <<"b", "u", "y">>, <<"f", "u", "n", "d", "i", "n", "g">>}
        negative_keywords ==
            {<<"r", "a", "n", "k", "e", "d">>, <<"b", "e", "s", "t">>, <<"a", "w", "a", "r", "d">>,
             <<"n", "a", "m", "e", "d">>, <<"s", "u", "r", "v", "e", "y">>,
             <<"e", "c", "o", "n", "o", "m", "y">>, <<"r", "e", "p", "o", "r", "t">>,
             <<"i", "n", "d", "e", "x">>, <<"p", "m", "i">>, <<"s", "c", "o", "r", "e">>,
             <<"r", "e", "c", "o", "g", "n", "i", "t", "i", "o", "n">>}
        score == 10 * Cardinality({w \in positive_keywords : contains(lower(title), w)})
                 - 20 * Cardinality({w \in negative_keywords : contains(lower(title), w)})
    IN score >= 5

\* str.isdigit()
isdigit(s) == s # <<>> /\ \A i \in 1..Len(s) : IsDigit(s[i])

\* The loop of fetch_finnhub_mna over res["data"].
RECURSIVE fetch_finnhub_mna(_)
fetch_finnhub_mna(data) ==
    IF data = <<>> THEN <<>>
    ELSE LET d == Head(data)
             date == get(d, "date")
             title == get_default(d, "headline", Empty)
             old == /\ truthy(date) /\ isdigit(first4(date.s))
                    /\ digits_value(first4(date.s), 0) < MIN_YEAR_LIMIT
         IN (IF truthy(title) /\ ~old /\ _is_valid_event(title.s)
             THEN <<[description |-> title,
                     date |-> date,
                     type |-> Str(<<"M", "&", "A">>),
                     other_party |-> get_default(d, "partner", Str(NA)),
                     investment |-> get_default(d, "value", Str(NA)),
                     source |-> Str(<<"F", "i", "n", "n", "h", "u", "b">>)]>>
             ELSE <<>>)
            \o fetch_finnhub_mna(Tail(data))

\* The loop of fetch_yahoo_finance over res["news"].
RECURSIVE fetch_yahoo_finance(_)
fetch_yahoo_finance(res) ==
    IF res = <<>> THEN <<>>
    ELSE LET pub_time == get(Head(res), "providerPublishTime")
             title == get_default(Head(res), "title", Empty)
             dt == utcfromtimestamp(digits_value(pub_time.s, 0))
         IN (IF truthy(pub_time) /\ truthy(title) /\ dt.Y >= MIN_YEAR_LIMIT
                /\ _is_valid_event(title.s)
             THEN <<[description |-> title,
                     date |-> Str(strftime(dt)),
                     type |-> Str(<<"C", "o", "r", "p", "o", "r", "a", "t", "e", " ", "E", "v", "e", "n", "t">>),
                     source |-> Str(<<"Y", "a", "h", "o", "o", " ", "F", "i", "n", "a", "n", "c", "e">>)]>>
             ELSE <<>>)
            \o fetch_yahoo_finance(Tail(res))

\* The loop of fetch_google_finance over the items of the feed: an item whose
\* date does not parse, or a recent item without title text, raises, and the
\* bare except returns the events built so far.
RECURSIVE fetch_google_finance(_)
fetch_google_finance(items) ==
    IF items = <<>> THEN <<>>
    ELSE LET title == Head(items).title
             dt == strptime(Head(items).pubDate.s,
                            <<"%a", ",", " ", "%d", " ", "%b", " ", "%Y", " ",
                              "%H", ":", "%M", ":", "%S", " ", "%Z">>)
         IN IF Head(items).pubDate.t # "str" \/ dt = NoParse THEN <<>>
            ELSE IF dt.Y < MIN_YEAR_LIMIT THEN fetch_google_finance(Tail(items))
            ELSE IF title.t # "str" THEN <<>>
            ELSE (IF _is_valid_event(title.s)
                  THEN <<[description |-> title,
                          date |-> Str(strftime(dt)),
                          type |-> Str(<<"C", "o", "r", "p", "o", "r", "a", "t", "e", " ", "E", "v", "e", "n", "t">>),
                          source |-> Str(<<"G", "o", "o", "g", "l", "e", " ", "F", "i", "n", "a", "n", "c", "e">>)]>>
                  ELSE <<>>)
                 \o fetch_google_finance(Tail(items))

\* events.extend of the three fetches, in the order of scrape_all_sources.
scrape_all_sources(mna, yahoo, google) ==
    fetch_finnhub_mna(mna) \o fetch_yahoo_finance(yahoo) \o fetch_google_finance(google)

\* The loop of fetch_finnhub_events over the earnings the client returned.
RECURSIVE fetch_finnhub_events(_)
fetch_finnhub_events(response) ==
    IF response = <<>> THEN <<>>
    ELSE <<[title |-> Str(<<"E", "a", "r", "n", "i", "n", "g", "s", " ", "C", "a", "l", "l">>),
            date |-> Str(py_str(get_default(Head(response), "date", Empty))),
            source |-> Str(<<"F", "i", "n", "n", "h", "u", "b", " ", "A", "P", "I">>),
            description |-> Str(<<"A", "c", "m", "e", " ", "e", "a", "r", "n", "i", "n", "g", "s", " ", "r", "e", "p", "o", "r", "t", " ", "r", "e", "l", "e", "a", "s", "e", "d", ".">>)]>>
         \o fetch_finnhub_events(Tail(response))

\* The loop of fetch_google_news over news_results.
RECURSIVE fetch_google_news(_)
fetch_google_news(results) ==
    IF results = <<>> THEN <<>>
    ELSE <<[title |-> get_default(Head(results), "title", Str(<<"U", "n", "k", "n", "o", "w", "n", " ", "E", "v", "e", "n", "t">>)),
            date |-> get_default(Head(results), "published_date", Empty),
            source |-> Str(<<"G", "o", "o", "g", "l", "e", " ", "N", "e", "w", "s">>),
            description |-> get_default(Head(results), "snippet", Empty)]>>
         \o fetch_google_news(Tail(results))

\* ------------------------------------------------------------------------
\* event_ai: the parser of the provider's answer and the refinement loop
\* ------------------------------------------------------------------------

\* Where pattern, lower-case, occurs in text whatever the letter case.
find_all(text, pattern) ==
    {i \in 1..(Len(text) - Len(pattern) + 1) :
        /\ LowerChar(text[i]) = pattern[1]
        /\ lower(SubSeq(text, i, i + Len(pattern) - 1)) = pattern}

\* re.search(rf"{label}:\s*(.*)", block, re.IGNORECASE): after the first
\* "label:" all whitespace, line ends included, is skipped and the rest of
\* the line is the field, stripped; "Unknown" without a match.
_extract_field(block, label) ==
    LET hits == find_all(block, lower(label) \o <<":">>)
    IN IF hits = {} THEN Unknown
       ELSE LET first == CHOOSE i \in hits : \A j \in hits : i <= j
                rest == lstrip(SubSeq(block, first + Len(label) + 1, Len(block)))
                ends == {i \in 1..Len(rest) : rest[i] = "\n"}
                eol == IF ends = {} THEN Len(rest) + 1
                       ELSE CHOOSE i \in ends : \A j \in ends : i <= j
            IN strip(SubSeq(rest, 1, eol - 1))

\* re.split(r"- Event:", text, flags=re.IGNORECASE)
RECURSIVE split_events(_)
split_events(text) ==
    LET hits == find_all(text, <<"-", " ", "e", "v", "e", "n", "t", ":">>)
    IN IF hits = {} THEN <<text>>
       ELSE LET first == CHOOSE i \in hits : \A j \in hits : i <= j
            IN <<SubSeq(text, 1, first - 1)>>
               \o split_events(SubSeq(text, first + 8, Len(text)))

\* The event of one chunk, lines 34-44.
ai_event(ch) ==
    [description |-> Str(_extract_field(ch, <<"D", "e", "s", "c", "r", "i", "p", "t", "i", "o", "n">>)),
     date |-> Str(_extract_field(ch, <<"D", "a", "t", "e">>)),
     type |-> Str(_extract_field(ch, <<"T", "y", "p", "e">>)),
     other_party |-> Str(_extract_field(ch, <<"O", "t", "h", "e", "r", " ", "C", "o", "u", "n", "t", "e", "r", "p", "a", "r", "t", "y">>)),
     counterparty_status |-> Str(_extract_field(ch, <<"C", "o", "u", "n", "t", "e", "r", "p", "a", "r", "t", "y", " ", "S", "t", "a", "t", "u", "s">>)),
     investment |-> Str(_extract_field(ch, <<"I", "n", "v", "e", "s", "t", "m", "e", "n", "t">>)),
     enterprise_value |-> Str(_extract_field(ch, <<"E", "n", "t", "e", "r", "p", "r", "i", "s", "e", " ", "V", "a", "l", "u", "e">>)),
     advisors |-> Str(_extract_field(ch, <<"A", "d", "v", "i", "s", "o", "r", "s">>)),
     source |-> Str(<<"A", "I">>)]

\* The loop of _parse_ai_response over the chunks.
RECURSIVE parse_chunks(_)
parse_chunks(chunks) ==
    IF chunks = <<>> THEN <<>>
    ELSE (IF Len(_extract_field(Head(chunks), <<"D", "e", "s", "c", "r", "i", "p", "t", "i", "o", "n">>)) > 3
          THEN <<ai_event(Head(chunks))>> ELSE <<>>)
         \o parse_chunks(Tail(chunks))

_parse_ai_response(text) == parse_chunks(Tail(split_events(text)))

\* The loop of lines 162-170 from raw event ai_idx on: the raw event is paired
\* with the AI event of its position, filtered on that event's date and
\* overlaid with it ({**evt, **enriched}).
RECURSIVE refine_from(_, _, _)
refine_from(raws, ai_events, ai_idx) ==
    IF ai_idx > Len(raws) THEN <<>>
    ELSE LET evt == raws[ai_idx]
             enriched == IF ai_idx <= Len(ai_events) THEN ai_events[ai_idx] ELSE evt
         IN (IF _is_within_last_5_years(get_default(enriched, "date", Empty))
             THEN <<enriched @@ evt>> ELSE <<>>)
            \o refine_from(raws, ai_events, ai_idx + 1)

\* AI_MODELS
AI_MODELS == <<"openai/gpt-4.1-mini", "deepseek/deepseek-chat", "anthropic/claude-3-haiku">>

\* Message contents a provider may answer with: no event block; a full block;
\* a block dated outside the window; a block whose Date line is empty; a
\* block with a too short description followed by one with a free-text date.
AiContents ==
    {<<"N", "o", " ", "v", "e", "r", "i", "f", "i", "a", "b", "l", "e", " ", "e", "v", "e", "n",
       "t", "s", " ", "f", "o", "u", "n", "d", ".">>,
     <<"-", " ", "E", "v", "e", "n", "t", ":", "\n", " ", " ", "D", "e", "s", "c", "r", "i", "p",
       "t", "i", "o", "n", ":", " ", "A", "c", "m", "e", " ", "a", "c", "q", "u", "i", "r", "e",
       "d", " ", "W", "i", "d", "g", "e", "t", " ", "C", "o", "r", "p", "\n", " ", " ", "D", "a",
       "t", "e", ":", " ", "2", "0", "2", "4", "-", "0", "3", "-", "0", "1", "\n", " ", " ", "T",
       "y", "p", "e", ":", " ", "A", "c", "q", "u", "i", "s", "i", "t", "i", "o", "n", "\n", " ",
       " ", "O", "t", "h", "e", "r", " ", "C", "o", "u", "n", "t", "e", "r", "p", "a", "r", "t",
       "y", ":", " ", "W", "i", "d", "g", "e", "t", " ", "C", "o", "r", "p", "\n", " ", " ", "C",
       "o", "u", "n", "t", "e", "r", "p", "a", "r", "t", "y", " ", "S", "t", "a", "t", "u", "s",
       ":", " ", "T", "a", "r", "g", "e", "t", "\n", " ", " ", "I", "n", "v", "e", "s", "t", "m",
       "e", "n", "t", ":", " ", "$", "5", "M", "\n", " ", " ", "E", "n", "t", "e", "r", "p", "r",
       "i", "s", "e", " ", "V", "a", "l", "u", "e", ":", " ", "$", "9", "M", "\n", " ", " ", "A",
       "d", "v", "i", "s", "o", "r", "s", ":", " ", "G", "o", "l", "d", "m", "a", "n", "\n">>,
     <<"-", " ", "E", "v", "e", "n", "t", ":", "\n", " ", " ", "D", "e", "s", "c", "r", "i", "p",
       "t", "i", "o", "n", ":", " ", "A", "c", "m", "e", " ", "a", "c", "q", "u", "i", "r", "e",
       "d", " ", "W", "i", "d", "g", "e", "t", " ", "C", "o", "r", "p", "\n", " ", " ", "D", "a",
       "t", "e", ":", " ", "2", "0", "1", "5", "-", "0", "6", "-", "0", "1", "\n", " ", " ", "T",
       "y", "p", "e", ":", " ", "A", "c", "q", "u", "i", "s", "i", "t", "i", "o", "n", "\n">>,
     <<"-", " ", "E", "V", "E", "N", "T", ":", "\n", " ", " ", "D", "e", "s", "c", "r", "i", "p",
       "t", "i", "o", "n", ":", " ", "A", "c", "m", "e", " ", "s", "t", "a", "k", "e", " ", "i",
       "n", " ", "G", "a", "d", "g", "e", "t", "\n", " ", " ", "D", "a", "t", "e", ":", "\n",
       " ", " ", "T", "y", "p", "e", ":", " ", "I", "n", "v", "e", "s", "t", "m", "e", "n", "t",
       "\n">>,
     <<"-", " ", "E", "v", "e", "n", "t", ":", "\n", " ", " ", "D", "e", "s", "c", "r", "i", "p",
       "t", "i", "o", "n", ":", " ", "n", "/", "a", "\n", "-", " ", "E", "v", "e", "n", "t", ":",
       "\n", " ", " ", "D", "e", "s", "c", "r", "i", "p", "t", "i", "o", "n", ":", " ", "A", "c",
       "m", "e", " ", "e", "a", "r", "n", "i", "n", "g", "s", " ", "u", "p", "d", "a", "t", "e",
       "\n", " ", " ", "D", "a", "t", "e", ":", " ", "M", "a", "r", "c", "h", " ", "2", "0", "2",
       "2", "\n">>}

\* ai_events = _parse_ai_response(ai_content), for each of these contents.
AiAnswers == {_parse_ai_response(ai_content) : ai_content \in AiContents}

\* ------------------------------------------------------------------------
\* event_verified.generate_verified_corporate_events
\* ------------------------------------------------------------------------

\* datetime.now().month
CurrentMonth == 2

\* The dict of lines 378-389 for one event Gemini listed.
verified_event(ev) ==
    [year |-> Str(first4(py_str(get_default(ev, "date", Str(Unknown))))),
     date |-> get_default(ev, "date", Str(Unknown)),
     title |-> get_default(ev, "event_name",
                           get_default(ev, "title", Str(<<"U", "n", "n", "a", "m", "e", "d", " ", "E", "v", "e", "n", "t">>))),
     description |-> get_default(ev, "description", get_default(ev, "event_name", Empty)),
     event_type |-> get_default(ev, "event_type", Str(Other)),
     counterparty |-> get_default(ev, "counterparty", Str(NA)),
     amount |-> get_default(ev, "value", Str(Undisclosed)),
     source |-> Str(<<"G", "e", "m", "i", "n", "i">>),
     url |-> get_default(ev, "url", Empty),
     confidence |-> Str(<<"A">>)]

RECURSIVE verified_events(_)
verified_events(all) ==
    IF all = <<>> THEN <<>>
    ELSE <<verified_event(Head(all))>> \o verified_events(Tail(all))

\* Lines 392-398: sort_events(merge_and_clean_events(validate_event_confidence(
\* deduplicate_events(events)))); the bound variables hold each list.
clean_verified(all) ==
    CHOOSE out \in
        {sort_events(merged) :
           merged \in {merge_and_clean_events(scored) :
             scored \in {validate_event_confidence(unique) :
               unique \in {deduplicate_events(transformed) :
                 transformed \in {verified_events(all)}}}}} : TRUE

\* The functions of event_utils and the stages of lines 378-398, each called
\* on a list of records.
InitEvents ==
    /\ strftime_pads \in BOOLEAN
    /\ iso_basic \in BOOLEAN
    /\ call = "none"
    /\ arg \in EventLists
    /\ ret = <<>>
    /\ passed = arg /\ again = <<>>
    /\ NoRun

CallDeduplicateEvents ==
    /\ call = "none"
    /\ call' = "deduplicate_events"
    /\ ret' = deduplicate_events(arg)
    /\ UNCHANGED <<runtime, arg, passed, again, config, run, extraction>>

\* A merge that writes the canonical records over the list it was given.
CallMergeAndCleanInPlace ==
    /\ call = "none"
    /\ call' = "merge_and_clean_events"
    /\ ret' = merge_and_clean_events(arg)
    /\ arg' = ret'
    /\ UNCHANGED <<runtime, passed, again, config, run, extraction>>

CallMergeAndCleanEvents ==
    /\ call = "none"
    /\ call' = "merge_and_clean_events"
    /\ ret' = merge_and_clean_events(arg)
    /\ UNCHANGED <<runtime, arg, passed, again, config, run, extraction>>

\* Lines 118-129: the tier is written into the records of the list passed
\* and that list is returned.
CallValidateEventConfidence ==
    /\ call = "none"
    /\ call' = "validate_event_confidence"
    /\ ret' = validate_event_confidence(arg)
    /\ arg' = ret'
    /\ UNCHANGED <<runtime, passed, again, config, run, extraction>>

\* generate_verified_corporate_events, lines 378-398: the events collected
\* are read into new records, which go through the stages.
CallCleanVerified ==
    /\ call = "none"
    /\ call' = "generate_verified_corporate_events"
    /\ ret' = clean_verified(arg)
    /\ UNCHANGED <<runtime, arg, passed, again, config, run, extraction>>

\* A second call of the same function on the list the caller still holds.
CallAgain ==
    /\ call # "none"
    /\ again = <<>>
    /\ \E out \in {CASE call = "deduplicate_events" -> deduplicate_events(arg)
                      [] call = "merge_and_clean_events" -> merge_and_clean_events(arg)
                      [] call = "validate_event_confidence" -> validate_event_confidence(arg)
                      [] OTHER -> clean_verified(arg)} :
           /\ again' = <<out>>
           /\ arg' = IF call = "validate_event_confidence" THEN out ELSE arg
    /\ UNCHANGED <<runtime, call, ret, passed, config, run, extraction>>

NextEvents ==
    \/ CallDeduplicateEvents
    \/ CallMergeAndCleanEvents
    \/ CallValidateEventConfidence
    \/ CallCleanVerified
    \/ CallAgain

SpecEvents == InitEvents /\ [][NextEvents]_vars

\* What _ask_gemini_for_month and _ask_gemini_for_year may return: nothing
\* (no event, or a failure, which they turn into []), or the events of the
\* JSON answer.
GeminiAnswers ==
    {<<>>,
     <<[date |-> Str(<<"2", "0", "2", "5", "-", "0", "1", "-", "2", "0">>),
        event_name |-> Str(<<"A", "c", "m", "e", " ", "A", "c", "q", "u", "i", "r", "e", "s", " ", "W", "i", "d", "g", "e", "t", " ", "C", "o", "r", "p">>),
        description |-> Str(<<"A", "c", "m", "e", " ", "a", "g", "r", "e", "e", "d", " ", "t", "o", " ", "a", "c", "q", "u", "i", "r", "e", " ", "W", "i", "d", "g", "e", "t", " ", "C", "o", "r", "p", ".">>),
        counterparty |-> Str(<<"W", "i", "d", "g", "e", "t", " ", "C", "o", "r", "p">>),
        value |-> Str(<<"$", "5", "M">>),
        event_type |-> Str(<<"A", "c", "q", "u", "i", "s", "i", "t", "i", "o", "n">>)]>>,
     <<[event_name |-> Empty, description |-> Empty, date |-> None]>>}

MaxVerified == 1

\* ------------------------------------------------------------------------
\* event_analyzer.generate_corporate_events
\* ------------------------------------------------------------------------

\* What the services behind the adapters may answer, decoded.
MnaAnswers ==
    {<<>>,
     <<[headline |-> Str(<<"A", "c", "m", "e", " ", "t", "o", " ", "a", "c", "q", "u", "i", "r", "e", " ", "W", "i", "d", "g", "e", "t", " ", "C", "o", "r", "p">>), date |-> Str(<<"2", "0", "2", "1", "-", "0", "3", "-", "0", "1">>),
        partner |-> Str(<<"W", "i", "d", "g", "e", "t", " ", "C", "o", "r", "p">>), value |-> Str(<<"$", "5", "M">>)]>>,
     <<[headline |-> Str(<<"A", "c", "m", "e", " ", "t", "o", " ", "a", "c", "q", "u", "i", "r", "e", " ", "W", "i", "d", "g", "e", "t", " ", "C", "o", "r", "p">>),
        partner |-> Str(<<"W", "i", "d", "g", "e", "t", " ", "C", "o", "r", "p">>), value |-> Str(<<"$", "5", "M">>)]>>,
     <<[headline |-> Str(<<"A", "c", "m", "e", " ", "m", "e", "r", "g", "e", "r", " ", "w", "i", "t", "h", " ", "G", "a", "d", "g", "e", "t", " ", "I", "n", "c">>), date |-> Str(<<"2", "0", "1", "9", "-", "0", "5", "-", "0", "1">>)]>>}

YahooAnswers ==
    {<<>>,
     <<[title |-> Str(<<"A", "c", "m", "e", " ", "t", "o", " ", "i", "n", "v", "e", "s", "t", " ", "i", "n", " ", "G", "a", "d", "g", "e", "t", " ", "I", "n", "c">>),
        providerPublishTime |-> PyInt(<<"1", "7", "3", "6", "8", "9", "9", "2", "0", "0">>)]>>}

GoogleFinanceAnswers ==
    {<<>>,
     <<[title |-> Str(<<"A", "c", "m", "e", " ", "m", "e", "r", "g", "e", "r", " ", "t", "a", "l", "k", "s", " ", "w", "i", "t", "h", " ", "G", "a", "d", "g", "e", "t", " ", "I", "n", "c">>),
        pubDate |-> Str(<<"W", "e", "d", ",", " ", "1", "5", " ", "J", "a", "n", " ", "2", "0", "2", "5", " ", "1", "0", ":", "0", "0", ":", "0", "0", " ", "G", "M", "T">>)]>>,
     <<[title |-> None, pubDate |-> Str(<<"W", "e", "d", ",", " ", "1", "5", " ", "J", "a", "n", " ", "2", "0", "2", "5", " ", "1", "0", ":", "0", "0", ":", "0", "0", " ", "G", "M", "T">>)],
       [title |-> Str(<<"A", "c", "m", "e", " ", "m", "e", "r", "g", "e", "r", " ", "t", "a", "l", "k", "s", " ", "w", "i", "t", "h", " ", "G", "a", "d", "g", "e", "t", " ", "I", "n", "c">>),
        pubDate |-> Str(<<"W", "e", "d", ",", " ", "1", "5", " ", "J", "a", "n", " ", "2", "0", "2", "5", " ", "1", "0", ":", "0", "0", ":", "0", "0", " ", "G", "M", "T">>)]>>}

EarningsAnswers ==
    {<<>>,
     <<[date |-> Str(<<"2", "0", "2", "4", "-", "1", "2", "-", "3", "1">>)]>>,
     <<[date |-> Str(<<"2", "0", "1", "5", "-", "0", "3", "-", "3", "1">>)]>>}

NewsAnswers ==
    {<<>>,
     <<[title |-> Str(<<"A", "c", "m", "e", " ", "a", "c", "q", "u", "i", "r", "e", "s", " ", "W", "i", "d", "g", "e", "t", " ", "C", "o", "r", "p">>), published_date |-> Str(<<"2", "0", "2", "4", "-", "0", "3", "-", "0", "1">>),
        snippet |-> Str(<<"A", "c", "m", "e", " ", "s", "a", "i", "d", " ", "i", "t", " ", "a", "c", "q", "u", "i", "r", "e", "s", " ", "W", "i", "d", "g", "e", "t", " ", "C", "o", "r", "p", ".">>)]>>,
     <<[title |-> Str(<<"A", "c", "m", "e", " ", "a", "c", "q", "u", "i", "r", "e", "s", " ", "W", "i", "d", "g", "e", "t", " ", "C", "o", "r", "p">>), published_date |-> Str(<<"0", "1", "/", "0", "6", "/", "2", "0", "1", "5">>),
        snippet |-> Empty]>>}

MaxRaw == 2

Init ==
    /\ strftime_pads \in BOOLEAN
    /\ iso_basic \in BOOLEAN
    /\ call = "none" /\ arg = None /\ ret = None /\ passed = None /\ again = <<>>
    /\ pc = "start"
    /\ USE_VERIFIED_PIPELINE \in BOOLEAN
    /\ OPENROUTER_API_KEY \in BOOLEAN
    /\ years \in {2, 5}
    /\ period = 0 /\ all_events = <<>> /\ raw_events = <<>> /\ model = 1
    /\ refined = <<>> /\ final = <<>>
    /\ returned = <<>> /\ raised = "none" /\ invoked = <<>>
    /\ news = <<>> /\ item = 0 /\ structured_events = <<>>

\* generate_corporate_events, lines 141-144 and 161: the verified pipeline
\* first when the switch is on, else the legacy pipeline.
GenerateCorporateEvents ==
    /\ pc = "start"
    /\ pc' = IF USE_VERIFIED_PIPELINE THEN "verified" ELSE "scrape"
    /\ UNCHANGED <<runtime, caller, config, extraction,
                   period, all_events, raw_events, model, refined, final,
                   returned, raised, invoked>>

\* Lines 354-358, one month of the current year: what Gemini lists, or (nothing
\* listed) refine_events_with_ai of no events, which is [].
AskGeminiForMonth ==
    /\ pc = "verified"
    /\ period < CurrentMonth
    /\ \E monthly_events \in GeminiAnswers :
           /\ Len(all_events) + Len(monthly_events) <= MaxVerified
           /\ all_events' = all_events \o monthly_events
    /\ period' = period + 1
    /\ UNCHANGED <<runtime, caller, config, extraction,
                   pc, raw_events, model, refined, final,
                   returned, raised, invoked>>

\* Lines 363-368, one past year, from end_year - 1 down to start_year.
AskGeminiForYear ==
    /\ pc = "verified"
    /\ period >= CurrentMonth
    /\ period < CurrentMonth + years - 1
    /\ \E yearly_events \in GeminiAnswers :
           /\ Len(all_events) + Len(yearly_events) <= MaxVerified
           /\ all_events' = all_events \o yearly_events
    /\ period' = period + 1
    /\ UNCHANGED <<runtime, caller, config, extraction,
                   pc, raw_events, model, refined, final,
                   returned, raised, invoked>>

\* The verified pipeline called without the try of lines 143-159: its
\* exception ends the run.
ReconcileVerifiedUncaught ==
    /\ pc = "verified"
    /\ period = CurrentMonth + years - 1
    /\ \E cleaned \in {clean_verified(all_events)} :
           \E raises \in {\/ cleaned = <<>>
                          \/ \E i \in 1..Len(cleaned) : "year" \notin DOMAIN cleaned[i]} :
               /\ pc' = IF raises THEN "raised" ELSE "done"
               /\ final' = IF raises THEN final ELSE cleaned
               /\ raised' = IF raises THEN "KeyError" ELSE "none"
    /\ period' = 0
    /\ all_events' = <<>>
    /\ UNCHANGED <<runtime, caller, config, extraction, raw_events, model, refined,
                   returned, invoked>>

\* Lines 378-418 and the except of event_analyzer line 159.  The cleaned
\* events have no "year" (merge_and_clean_events builds its own dicts), so
\* the sort of line 401 raises KeyError when there is an event, and with no
\* event the frame of line 408 has no "Year" column and line 418 raises
\* KeyError: generate_corporate_events falls back to the legacy pipeline.
ReconcileVerified ==
    /\ pc = "verified"
    /\ period = CurrentMonth + years - 1
    /\ \E cleaned \in {clean_verified(all_events)} :
           \E raises \in {\/ cleaned = <<>>
                          \/ \E i \in 1..Len(cleaned) : "year" \notin DOMAIN cleaned[i]} :
               /\ pc' = IF raises THEN "scrape" ELSE "done"
               /\ final' = IF raises THEN final ELSE cleaned
               /\ raised' = IF raises THEN "KeyError" ELSE "none"
    /\ period' = 0
    /\ all_events' = <<>>
    /\ UNCHANGED <<runtime, caller, config, extraction, raw_events, model, refined,
                   returned, invoked>>

\* _legacy_generate_corporate_events line 122, scrape_all_sources returning.
ScrapeAllSources ==
    /\ pc = "scrape"
    /\ \E mna \in MnaAnswers, yahoo \in YahooAnswers, google \in GoogleFinanceAnswers :
           \E scraped \in {scrape_all_sources(mna, yahoo, google)} :
               /\ Len(scraped) <= MaxRaw
               /\ raw_events' = raw_events \o scraped
               /\ returned' = returned \o scraped
    /\ pc' = "finnhub"
    /\ UNCHANGED <<runtime, caller, config, extraction,
                   period, all_events, model, refined, final,
                   raised, invoked>>

\* Lines 122-123, scrape_all_sources raising: fetch_finnhub_mna raises in its
\* loop, or it returns its events and fetch_yahoo_finance raises in its loop
\* (both loops are outside the try: the decoded answer is no JSON object, an
\* item is no object, a publish time is no number).  The except of line 123
\* logs it and events.extend is not run.
ScrapeFails ==
    /\ pc = "scrape"
    /\ \E mna \in MnaAnswers :
           returned' = returned \o fetch_finnhub_mna(mna)
    /\ pc' = "finnhub"
    /\ UNCHANGED <<runtime, caller, config, extraction,
                   period, all_events, raw_events, model, refined, final,
                   raised, invoked>>

\* Line 125: fetch_finnhub_events returns the earnings records, or [] without
\* key or on a failure.
FetchFinnhubEvents ==
    /\ pc = "finnhub"
    /\ \E response \in EarningsAnswers :
           /\ Len(raw_events) + Len(response) <= MaxRaw
           /\ raw_events' = raw_events \o fetch_finnhub_events(response)
           /\ returned' = returned \o fetch_finnhub_events(response)
    /\ pc' = "google_news"
    /\ UNCHANGED <<runtime, caller, config, extraction,
                   period, all_events, model, refined, final,
                   raised, invoked>>

\* Line 128: fetch_google_news returns the news records, or [] without key or
\* on a failure.
FetchGoogleNews ==
    /\ pc = "google_news"
    /\ \E results \in NewsAnswers :
           /\ Len(raw_events) + Len(results) <= MaxRaw
           /\ raw_events' = raw_events \o fetch_google_news(results)
           /\ returned' = returned \o fetch_google_news(results)
    /\ pc' = "refine"
    /\ model' = 1
    /\ UNCHANGED <<runtime, caller, config, extraction,
                   period, all_events, refined, final,
                   raised, invoked>>

\* refine_events_with_ai, lines 95-100: [] for no events, the raw events
\* as they are without an API key.
RefineWithoutAi ==
    /\ pc = "refine"
    /\ raw_events = <<>> \/ ~OPENROUTER_API_KEY
    /\ refined' = raw_events
    /\ pc' = "merge"
    /\ UNCHANGED <<runtime, caller, config, extraction,
                   period, all_events, raw_events, model, final,
                   returned, raised, invoked>>

\* A chain that returns no events once its last provider has failed.
AiModelGivesUp ==
    /\ pc = "refine"
    /\ raw_events # <<>> /\ OPENROUTER_API_KEY
    /\ model <= Len(AI_MODELS)
    /\ IF model < Len(AI_MODELS)
       THEN /\ model' = model + 1
            /\ UNCHANGED <<pc, refined>>
       ELSE /\ refined' = <<>>
            /\ pc' = "merge"
            /\ UNCHANGED model
    /\ invoked' = Append(invoked, [model |-> AI_MODELS[model], ok |-> FALSE])
    /\ UNCHANGED <<runtime, caller, config, extraction,
                   period, all_events, raw_events, final,
                   returned, raised>>

\* A chain that goes to its last provider as soon as one has failed.
AiModelSkipped ==
    /\ pc = "refine"
    /\ raw_events # <<>> /\ OPENROUTER_API_KEY
    /\ model <= Len(AI_MODELS)
    /\ IF model < Len(AI_MODELS)
       THEN /\ model' = Len(AI_MODELS)
            /\ UNCHANGED <<pc, refined>>
       ELSE /\ refined' = raw_events
            /\ pc' = "merge"
            /\ UNCHANGED model
    /\ invoked' = Append(invoked, [model |-> AI_MODELS[model], ok |-> FALSE])
    /\ UNCHANGED <<runtime, caller, config, extraction,
                   period, all_events, raw_events, final,
                   returned, raised>>

\* Lines 140-157 and 174-178: the request, the decoding or the parsing of the
\* answer of AI_MODELS[model] raises; the next model is tried, and after the
\* last one the raw events are returned.
AiModelFails ==
    /\ pc = "refine"
    /\ raw_events # <<>> /\ OPENROUTER_API_KEY
    /\ model <= Len(AI_MODELS)
    /\ IF model < Len(AI_MODELS)
       THEN /\ model' = model + 1
            /\ UNCHANGED <<pc, refined>>
       ELSE /\ refined' = raw_events
            /\ pc' = "merge"
            /\ UNCHANGED model
    /\ invoked' = Append(invoked, [model |-> AI_MODELS[model], ok |-> FALSE])
    /\ UNCHANGED <<runtime, caller, config, extraction,
                   period, all_events, raw_events, final,
                   returned, raised>>

\* Lines 140-172: AI_MODELS[model] answers with a message content; the events
\* parsed from it (possibly none) refine the raw events.
AiModelAnswers ==
    /\ pc = "refine"
    /\ raw_events # <<>> /\ OPENROUTER_API_KEY
    /\ model <= Len(AI_MODELS)
    /\ \E ai_events \in AiAnswers :
           refined' = refine_from(raw_events, ai_events, 1)
    /\ pc' = "merge"
    /\ invoked' = Append(invoked, [model |-> AI_MODELS[model], ok |-> TRUE])
    /\ UNCHANGED <<runtime, caller, config, extraction,
                   period, all_events, raw_events, model, final,
                   returned, raised>>

\* Lines 132-135: final = sort_events(merge_and_clean_events(refined)), with
\* the sort_events of event_analyzer.
MergeAndSort ==
    /\ pc = "merge"
    /\ final' = CHOOSE out \in {analyzer_sort_events(merged) :
                                  merged \in {merge_and_clean_events(refined)}} : TRUE
    /\ pc' = "done"
    /\ UNCHANGED <<runtime, caller, config, extraction,
                   period, all_events, raw_events, model, refined,
                   returned, raised, invoked>>

Next ==
    \/ GenerateCorporateEvents
    \/ AskGeminiForMonth
    \/ AskGeminiForYear
    \/ ReconcileVerified
    \/ ScrapeAllSources
    \/ ScrapeFails
    \/ FetchFinnhubEvents
    \/ FetchGoogleNews
    \/ RefineWithoutAi
    \/ AiModelFails
    \/ AiModelAnswers
    \/ MergeAndSort

Spec == Init /\ [][Next]_vars

\* ------------------------------------------------------------------------
\* event_verified_ai.generate_verified_events_ai
\* ------------------------------------------------------------------------

\* any(k in headline.lower() for k in keywords)
has_keyword(news_item, keywords) ==
    \E k \in keywords : contains(lower(get_default(news_item, "headline", Empty).s), k)

\* The keywords of the list comprehension of lines 203-207.
RelevantKeywords ==
    {<<"a", "c", "q", "u", "i", "r", "e">>, <<"m", "e", "r", "g", "e", "r">>, <<"i", "n", "v", "e", "s", "t", "m", "e", "n", "t">>, <<"d", "e", "a", "l">>, <<"i", "p", "o">>, <<"f", "u", "n", "d", "i", "n", "g">>, <<"s", "t", "a", "k", "e">>, <<"b", "u", "y", "o", "u", "t">>, <<"d", "i", "v", "e", "s", "t">>}

\* The keywords of extract_event_fields_ai, lines 91-94.
ExtractKeywords ==
    {<<"a", "c", "q", "u", "i", "r", "e">>, <<"m", "e", "r", "g", "e", "r">>, <<"d", "i", "v", "e", "s", "t">>, <<"b", "u", "y", "o", "u", "t">>, <<"s", "t", "a", "k", "e">>, <<"i", "n", "v", "e", "s", "t", "m", "e", "n", "t">>, <<"d", "e", "a", "l">>, <<"t", "r", "a", "n", "s", "a", "c", "t", "i", "o", "n">>, <<"i", "p", "o">>, <<"f", "u", "n", "d", "i", "n", "g">>}

RECURSIVE relevant(_)
relevant(items) ==
    IF items = <<>> THEN <<>>
    ELSE (IF has_keyword(Head(items), RelevantKeywords) THEN <<Head(items)>> ELSE <<>>)
         \o relevant(Tail(items))

\* dict.setdefault(k, v)
setdefault(d, k, v) == IF k \in DOMAIN d THEN d ELSE d @@ [x \in {k} |-> v]

\* extract_event_fields_ai for a model that answered with the JSON object
\* event: None for a headline without keyword, else the object with the
\* fallback fields of lines 161-164 (the process runs in UTC).
extract_event_fields_ai(news_item, event) ==
    IF ~has_keyword(news_item, ExtractKeywords) THEN None
    ELSE LET date == strftime(utcfromtimestamp(
                         digits_value(get_default(news_item, "datetime", PyInt(<<"0">>)).s, 0)))
             dated == setdefault(event, "date_announced", Str(date))
             sourced == setdefault(dated, "source",
                                   get_default(news_item, "source", Str(Unknown)))
             linked == setdefault(sourced, "url", get_default(news_item, "url", Empty))
         IN setdefault(linked, "confidence", Str(<<"M", "e", "d", "i", "u", "m">>))

\* News items Finnhub may list.
NewsItems ==
    {[headline |-> Str(<<"A", "c", "m", "e", " ", "t", "o", " ", "a", "c", "q", "u", "i", "r", "e", " ", "W", "i", "d", "g", "e", "t", " ", "C", "o", "r", "p">>), summary |-> Str(<<"A", "c", "m", "e", " ", "a", "g", "r", "e", "e", "d", " ", "t", "o", " ", "a", "c", "q", "u", "i", "r", "e", " ", "W", "i", "d", "g", "e", "t", " ", "C", "o", "r", "p", ".">>), datetime |-> PyInt(<<"1", "7", "3", "6", "8", "9", "9", "2", "0", "0">>),
      source |-> Str(<<"R", "e", "u", "t", "e", "r", "s">>), url |-> Str(<<"h", "t", "t", "p", "s", ":", "/", "/", "r", ".", "e", "x", "a", "m", "p", "l", "e", "/", "1">>)],
     [headline |-> Str(<<"A", "c", "m", "e", " ", "q", "u", "a", "r", "t", "e", "r", "l", "y", " ", "r", "e", "s", "u", "l", "t", "s">>), datetime |-> PyInt(<<"1", "7", "3", "6", "8", "9", "9", "2", "0", "0">>), source |-> Str(<<"S", "o", "m", "e", " ", "B", "l", "o", "g">>)],
     [headline |-> Str(<<"A", "c", "m", "e", " ", "t", "a", "k", "e", "s", " ", "S", "T", "A", "K", "E", " ", "i", "n", " ", "G", "a", "d", "g", "e", "t", " ", "I", "n", "c">>), datetime |-> PyInt(<<"1", "7", "3", "6", "8", "9", "9", "2", "0", "0">>), source |-> Str(<<"R", "e", "u", "t", "e", "r", "s">>)]}

MaxNews == 2

\* JSON objects a model may answer with.
ModelEvents ==
    {[description |-> Str(<<"A", "c", "m", "e", " ", "a", "c", "q", "u", "i", "r", "e", "s", " ", "W", "i", "d", "g", "e", "t", " ", "C", "o", "r", "p">>), date_announced |-> Str(<<"2", "0", "2", "5", "-", "0", "1", "-", "1", "5">>), type |-> Str(<<"A", "c", "q", "u", "i", "s", "i", "t", "i", "o", "n">>),
      other_counterparties |-> Str(<<"W", "i", "d", "g", "e", "t", " ", "C", "o", "r", "p">>), investment_value |-> Str(<<"$", "5", "M">>),
      confidence |-> Str(<<"H", "i", "g", "h">>)],
     [description |-> Str(<<"A", "c", "m", "e", " ", "t", "a", "k", "e", "s", " ", "a", " ", "s", "t", "a", "k", "e", " ", "i", "n", " ", "G", "a", "d", "g", "e", "t", " ", "I", "n", "c">>), type |-> Str(<<"I", "n", "v", "e", "s", "t", "m", "e", "n", "t">>)],
     [description |-> Str(<<"A", "c", "m", "e", " ", "a", "c", "q", "u", "i", "r", "e", "s", " ", "W", "i", "d", "g", "e", "t", " ", "C", "o", "r", "p">>), date |-> Str(<<"2", "0", "2", "5", "-", "0", "1", "-", "1", "5">>), confidence |-> Str(<<"A">>),
      source |-> Str(<<"R", "e", "u", "t", "e", "r", "s">>)],
     [type |-> Str(<<"I", "P", "O">>), confidence |-> Str(<<"L", "o", "w">>)]}

ExtractionModels ==
    <<"openai/gpt-4o-mini", "deepseek/deepseek-chat-v3-0324:free", "mistralai/mistral-nemo:free">>

InitAI ==
    /\ strftime_pads \in BOOLEAN
    /\ iso_basic \in BOOLEAN
    /\ call = "none" /\ arg = None /\ ret = None /\ passed = None /\ again = <<>>
    /\ pc = "fetch_news"
    /\ USE_VERIFIED_PIPELINE = FALSE /\ OPENROUTER_API_KEY = TRUE /\ years = 5
    /\ period = 0 /\ all_events = <<>> /\ raw_events = <<>> /\ model = 1
    /\ refined = <<>> /\ final = <<>>
    /\ returned = <<>> /\ raised = "none" /\ invoked = <<>>
    /\ news = <<>> /\ item = 0 /\ structured_events = <<>>

\* generate_verified_events_ai, lines 196-207: the news Finnhub lists ([]
\* without key or on a failure, and then the result has no events), narrowed
\* to the relevant items.
FetchCompanyNews ==
    /\ pc = "fetch_news"
    /\ \E fetched \in lists_over(NewsItems, MaxNews) :
           /\ news' = relevant(fetched)
           /\ pc' = IF fetched = <<>> THEN "saved" ELSE "extract"
    /\ item' = 1
    /\ UNCHANGED <<runtime, caller, config, structured_events,
                   period, all_events, raw_events, model, refined, final,
                   returned, raised, invoked>>

\* A failing attempt that leaves a half-built event behind.
ExtractionModelLeavesPartial ==
    /\ pc = "extract"
    /\ item <= Len(news)
    /\ has_keyword(news[item], ExtractKeywords)
    /\ IF model < Len(ExtractionModels)
       THEN /\ model' = model + 1
            /\ UNCHANGED item
       ELSE /\ model' = 1
            /\ item' = item + 1
    /\ invoked' = Append(IF model = 1 THEN <<>> ELSE invoked,
                         [model |-> ExtractionModels[model], ok |-> FALSE])
    /\ structured_events' = Append(structured_events,
                                   [source |-> get_default(news[item], "source", Str(Unknown))])
    /\ UNCHANGED <<runtime, caller, config, news,
                   pc, period, all_events, raw_events, refined, final,
                   returned, raised>>

\* extract_event_fields_ai, lines 104-183: ExtractionModels[model] raises, or
\* answers without a JSON object or with an empty one; the next model is
\* tried, and after the last one the item yields no event.
ExtractionModelFails ==
    /\ pc = "extract"
    /\ item <= Len(news)
    /\ has_keyword(news[item], ExtractKeywords)
    /\ IF model < Len(ExtractionModels)
       THEN /\ model' = model + 1
            /\ UNCHANGED item
       ELSE /\ model' = 1
            /\ item' = item + 1
    /\ invoked' = Append(IF model = 1 THEN <<>> ELSE invoked,
                         [model |-> ExtractionModels[model], ok |-> FALSE])
    /\ UNCHANGED <<runtime, caller, config, news, structured_events,
                   pc, period, all_events, raw_events, refined, final,
                   returned, raised>>

\* Lines 209-213 with lines 153-167: ExtractionModels[model] answers with a
\* JSON object, which is appended with its fallback fields.
ExtractionModelAnswers ==
    /\ pc = "extract"
    /\ item <= Len(news)
    /\ \E answer \in ModelEvents :
           \E event \in {extract_event_fields_ai(news[item], answer)} :
               structured_events' = IF event = None THEN structured_events
                                    ELSE Append(structured_events, event)
    /\ model' = 1
    /\ item' = item + 1
    /\ invoked' = Append(IF model = 1 THEN <<>> ELSE invoked,
                         [model |-> ExtractionModels[model], ok |-> TRUE])
    /\ UNCHANGED <<runtime, caller, config, news,
                   pc, period, all_events, raw_events, refined, final,
                   returned, raised>>

\* Lines 215-229: structured_events = merge_and_clean_events(structured_events)
\* is the "events" of the result that is saved and returned.
MergeStructuredEvents ==
    /\ pc = "extract"
    /\ item > Len(news)
    /\ final' = merge_and_clean_events(structured_events)
    /\ pc' = "saved"
    /\ UNCHANGED <<runtime, caller, config, extraction,
                   period, all_events, raw_events, model, refined,
                   returned, raised, invoked>>

NextAI ==
    \/ FetchCompanyNews
    \/ ExtractionModelFails
    \/ ExtractionModelAnswers
    \/ MergeStructuredEvents

SpecAI == InitAI /\ [][NextAI]_vars

\* Both entry points that run a provider chain: a run of either.
SpecChains == (Init \/ InitAI) /\ [][Next \/ NextAI]_vars

\* ------------------------------------------------------------------------
\* searxng_analyzer.generate_corporate_events
\* ------------------------------------------------------------------------

\* parse_date(date_str) as the number yyyymmdd: the first of "%Y-%m-%d",
\* "%B %d, %Y" and "%Y" that reads date_str.split("T")[0] (strptime fills a
\* missing month and day with 1), else datetime(1900, 1, 1).
parse_date(date_str) ==
    LET s == split_T(date_str.s)
        read(fmt) == {r \in MatchFrom(fmt, 1, s, 1, [Y |-> 1900, m |-> 1, d |-> 1]) :
                        ValidDate(r)}
        found == IF ~truthy(date_str) THEN {}
                 ELSE IF read(<<"%Y", "-", "%m", "-", "%d">>) # {}
                 THEN read(<<"%Y", "-", "%m", "-", "%d">>)
                 ELSE IF read(<<"%B", " ", "%d", ",", " ", "%Y">>) # {}
                 THEN read(<<"%B", " ", "%d", ",", " ", "%Y">>)
                 ELSE read(<<"%Y">>)
    IN IF found = {} THEN 19000101
       ELSE LET r == CHOOSE r \in found : TRUE
            IN r.Y * 10000 + r.m * 100 + r.d

\* Lines 439-446: the dict unique_events as the sequence of its values in
\* insertion order; a key met again keeps its place and takes the new value.
RECURSIVE unique_events(_, _)
unique_events(events, acc) ==
    IF events = <<>> THEN acc
    ELSE LET e == Head(events)
             entry == [description |-> get_default(e, "description",
                                           Str(<<"U", "n", "k", "n", "o", "w", "n", "C", "o", "r", "p", " ", "U", "n", "k", "n", "o", "w", "n", " ", "E", "v", "e", "n", "t">>)),
                       date |-> get_default(e, "date", Str(NA)),
                       type |-> get_default(e, "type", Str(<<"C", "o", "r", "p", "o", "r", "a", "t", "e", " ", "E", "v", "e", "n", "t">>)),
                       value |-> get_default(e, "value", Empty)]
             same == {i \in 1..Len(acc) :
                        /\ lower(acc[i].description.s) = lower(entry.description.s)
                        /\ acc[i].date = entry.date}
         IN unique_events(Tail(events),
                IF same = {} THEN Append(acc, entry)
                ELSE [i \in 1..Len(acc) |-> IF i \in same THEN entry ELSE acc[i]])

\* Lines 452-456: one block per event, joined by an empty line.
RECURSIVE output_lines(_)
output_lines(events) ==
    IF events = <<>> THEN <<>>
    ELSE <<"-", " ", "E", "v", "e", "n", "t", " ", "D", "e", "s", "c", "r", "i", "p", "t", "i", "o", "n", ":", " ">> \o Head(events).description.s
         \o <<"\n", " ", " ", "D", "a", "t", "e", ":", " ">> \o Head(events).date.s
         \o <<"\n", " ", " ", "T", "y", "p", "e", ":", " ">> \o Head(events).type.s
         \o <<"\n", " ", " ", "V", "a", "l", "u", "e", ":", " ">> \o Head(events).value.s
         \o (IF Tail(events) = <<>> THEN <<>> ELSE <<"\n", "\n">>)
         \o output_lines(Tail(events))

\* Lines 435-456: the message for no events (its warning sign is written as
\* the atoms "warning", "vs16"), else the events made unique, sorted by date
\* with the latest first, and formatted.
formatted_events(events) ==
    IF events = <<>>
    THEN <<"warning", "vs16">> \o <<" ", "N", "o", " ", "c", "o", "r", "p", "o", "r", "a", "t", "e", " ", "e", "v", "e", "n", "t", "s", " ", "f", "o", "u", "n", "d", " ", "f", "o", "r", " ", "U", "n", "k", "n", "o", "w", "n", "C", "o", "r", "p">>
    ELSE LET unique == unique_events(events, <<>>)
             dates == [i \in 1..Len(unique) |-> parse_date(unique[i].date)]
         IN output_lines(in_order(unique, sorted_desc(dates, 1, <<>>)))

\* The text argument: none, blanks only, a text.
SourceTexts == {Empty, Str(<<" ", "\n">>), Str(<<"I", "n", " ", "2", "0", "2", "4", " ", "A", "c", "m", "e", " ", "a", "c", "q", "u", "i", "r", "e", "d", " ", "W", "i", "d", "g", "e", "t", ".">>)}

\* What openrouter_chat returned, as json.loads reads it: no JSON (also the
\* "" of a failed request), a JSON value that is not a list, a list of event
\* objects.
ChatAnswers ==
    {[json |-> "invalid", items |-> <<>>],
     [json |-> "object", items |-> <<>>],
     [json |-> "array", items |-> <<>>],
     [json |-> "array",
      items |-> <<[description |-> Str(<<"A", "c", "m", "e", " ", "a", "c", "q", "u", "i", "r", "e", "d", " ", "W", "i", "d", "g", "e", "t">>), date |-> Str(<<"2", "0", "2", "4", "-", "0", "3", "-", "0", "1">>),
                   type |-> Str(<<"A", "c", "q", "u", "i", "s", "i", "t", "i", "o", "n">>), value |-> Str(<<"$", "5", "M">>)]>>],
     [json |-> "array",
      items |-> <<[description |-> Str(<<"A", "C", "M", "E", " ", "A", "C", "Q", "U", "I", "R", "E", "D", " ", "W", "I", "D", "G", "E", "T">>), date |-> Str(<<"2", "0", "2", "4", "-", "0", "3", "-", "0", "1">>),
                   type |-> Str(<<"M", "&", "A">>)],
                  [date |-> Str(<<"2", "0", "2", "5">>), value |-> Empty]>>]}

InitSearx ==
    /\ strftime_pads \in BOOLEAN
    /\ iso_basic \in BOOLEAN
    /\ call = "none" /\ arg \in SourceTexts /\ ret = None
    /\ passed = arg /\ again = <<>>
    /\ pc = "text"
    /\ USE_VERIFIED_PIPELINE = FALSE /\ OPENROUTER_API_KEY = TRUE /\ years = 5
    /\ period = 0 /\ all_events = <<>> /\ raw_events = <<>> /\ model = 1
    /\ refined = <<>> /\ final = <<>>
    /\ returned = <<>> /\ raised = "none" /\ invoked = <<>>
    /\ news = <<>> /\ item = 0 /\ structured_events = <<>>

\* Step 1, lines 328-365: with a text that is not blank the extraction
\* model is asked and the events of a JSON list are added; a blank text
\* skips the step.
TextEvents ==
    /\ pc = "text"
    /\ IF strip(arg.s) = <<>>
       THEN UNCHANGED <<all_events, invoked>>
       ELSE \E wiki_events \in ChatAnswers :
                /\ all_events' = all_events \o wiki_events.items
                /\ invoked' = Append(invoked, [model |-> "perplexity/sonar-pro",
                                               ok |-> wiki_events.json = "array"])
    /\ pc' = "gpt"
    /\ UNCHANGED <<runtime, caller, config, extraction,
                   period, raw_events, model, refined, final, returned, raised>>

\* Step 2, lines 368-399.
GptEvents ==
    /\ pc = "gpt"
    /\ \E chatgpt_events \in ChatAnswers :
           /\ all_events' = all_events \o chatgpt_events.items
           /\ invoked' = Append(invoked, [model |-> "anthropic/claude-3.5-sonnet",
                                          ok |-> chatgpt_events.json = "array"])
    /\ pc' = "website"
    /\ UNCHANGED <<runtime, caller, config, extraction,
                   period, raw_events, model, refined, final, returned, raised>>

\* Step 3, lines 402-432.
WebsiteEvents ==
    /\ pc = "website"
    /\ \E site_events \in ChatAnswers :
           /\ all_events' = all_events \o site_events.items
           /\ invoked' = Append(invoked, [model |-> "perplexity/sonar-pro",
                                          ok |-> site_events.json = "array"])
    /\ pc' = "format"
    /\ UNCHANGED <<runtime, caller, config, extraction,
                   period, raw_events, model, refined, final, returned, raised>>

\* Step 4, lines 435-456: the str returned.
FormatEvents ==
    /\ pc = "format"
    /\ ret' = Str(formatted_events(all_events))
    /\ pc' = "returned"
    /\ UNCHANGED <<runtime, call, arg, passed, again, config, extraction,
                   period, all_events, raw_events, model, refined, final,
                   returned, raised, invoked>>

NextSearx ==
    \/ TextEvents
    \/ GptEvents
    \/ WebsiteEvents
    \/ FormatEvents

SpecSearx == InitSearx /\ [][NextSearx]_vars

\* ------------------------------------------------------------------------
\* Properties of deduplication and merging
\* ------------------------------------------------------------------------

\* The dedup key of a canonical event: lower-cased title, date, lower-cased
\* source.
CanonicalKey(e) == <<lower(e.title.s), e.date.s, lower(e.source.s)>>

\* The positions of the raw records that have core text.
WithCoreText(events) ==
    {k \in 1..Len(events) : core_text(events[k]) \notin {<<>>, Unknown}}

\* C1: in the list merge_and_clean_events returns no two events share a dedup
\* key; every key of a raw record with core text is there, and the event
\* that carries it is the one built from the first raw record of that key.
C1_OneSurvivorPerKey ==
    call = "merge_and_clean_events" =>
        /\ \A i, j \in 1..Len(ret) :
               i # j => CanonicalKey(ret[i]) # CanonicalKey(ret[j])
        /\ \A k \in WithCoreText(arg) :
               \E i \in 1..Len(ret) :
                   CanonicalKey(ret[i]) = CanonicalKey(cleaned_event(arg[k]))
        /\ \A i \in 1..Len(ret) :
               \E k \in WithCoreText(arg) :
                   /\ ret[i] = cleaned_event(arg[k])
                   /\ \A m \in WithCoreText(arg) :
                          CanonicalKey(cleaned_event(arg[m])) = CanonicalKey(ret[i])
                              => m >= k

\* C1 witness: two raw records that differ in letter case, markup,
\* whitespace and date format were merged into one event.
C1_Witness ==
    /\ call = "merge_and_clean_events"
    /\ Len(arg) = 2 /\ Len(ret) = 1
    /\ WithCoreText(arg) = {1, 2}
    /\ get(arg[1], "date") # get(arg[2], "date")
    /\ get(arg[1], "source") # get(arg[2], "source")
    /\ cleaned_event(arg[1]) # cleaned_event(arg[2])

\* The positions of the events whose dedup key no earlier event has.
FirstOccurrences(events) ==
    {i \in 1..Len(events) :
        \A j \in 1..(i - 1) : dedup_key(events[j]) # dedup_key(events[i])}

\* C2: deduplicate_events returns the first occurrence of every dedup key,
\* and nothing else, in input order.
C2_FirstOccurrenceSubsequence ==
    call = "deduplicate_events" =>
        LET first == FirstOccurrences(arg)
        IN /\ Len(ret) = Cardinality(first)
           /\ \A n \in 1..Len(ret) :
                  ret[n] = arg[CHOOSE i \in first :
                                  Cardinality({j \in first : j <= i}) = n]

\* C2 witness: a call that dropped a later duplicate and kept two events.
C2_Witness ==
    /\ call = "deduplicate_events"
    /\ Len(arg) = 3 /\ Len(ret) = 2
    /\ dedup_key(arg[1]) = dedup_key(arg[2])
    /\ ret = <<arg[1], arg[3]>>

\* ------------------------------------------------------------------------
\* Properties of field normalisation
\* ------------------------------------------------------------------------

\* C7: the record of Scenario 1, which carries no confidence, leaves the
\* reconciliation as one event of type Other, amount Undisclosed and the
\* tier of Reuters, A.
C7_Scenario1 ==
    (call = "merge_and_clean_events" /\ arg = <<Scenario1>>) =>
        /\ Len(ret) = 1
        /\ ret[1].event_type = Str(Other)
        /\ ret[1].amount = Str(Undisclosed)
        /\ ret[1].confidence = Str(<<"A">>)

\* A field that is absent, None or "" under every one of its keys.
Blank(e, keys) == \A k \in keys : get(e, k) \in {None, Empty}

\* C8: a record with core text whose date, type and amount are absent, None
\* or "" under every alias becomes an event with date Unknown, event_type
\* Other and amount Undisclosed.
C8_SentinelCompleteness ==
    (/\ call = "merge_and_clean_events"
     /\ Len(arg) = 1
     /\ WithCoreText(arg) = {1}
     /\ Blank(arg[1], {"date"})
     /\ Blank(arg[1], {"event_type", "type"})
     /\ Blank(arg[1], {"amount", "investment", "value"})) =>
        /\ Len(ret) = 1
        /\ ret[1].date = Str(Unknown)
        /\ ret[1].event_type = Str(Other)
        /\ ret[1].amount = Str(Undisclosed)

\* C8 witness: such a record, with a key of each kind (absent, None, ""),
\* was merged.
C8_Witness ==
    /\ call = "merge_and_clean_events"
    /\ Len(arg) = 1 /\ Len(ret) = 1
    /\ "date" \notin DOMAIN arg[1]
    /\ "type" \in DOMAIN arg[1] /\ arg[1]["type"] = None
    /\ "event_type" \in DOMAIN arg[1] /\ arg[1]["event_type"] = Empty
    /\ Blank(arg[1], {"amount", "investment", "value"})
    /\ ret[1].event_type = Str(Other)

\* C9: every event merge_and_clean_events returns has a non-empty
\* counterparty, event_type and amount.
C9_NoEmptyField ==
    call = "merge_and_clean_events" =>
        \A i \in 1..Len(ret) :
            /\ ret[i].counterparty.s # <<>>
            /\ ret[i].event_type.s # <<>>
            /\ ret[i].amount.s # <<>>

\* ------------------------------------------------------------------------
\* Properties of the date functions
\* ------------------------------------------------------------------------

\* YYYY-MM-DD naming a date of the calendar.
IsIsoDate(s) ==
    /\ Len(s) = 10
    /\ s[5] = "-" /\ s[8] = "-"
    /\ \A i \in {1, 2, 3, 4, 6, 7, 9, 10} : IsDigit(s[i])
    /\ ValidDate([Y |-> digits_value(SubSeq(s, 1, 4), 0),
                  m |-> digits_value(SubSeq(s, 6, 7), 0),
                  d |-> digits_value(SubSeq(s, 9, 10), 0)])

\* C10: normalize_date returns a valid ISO date or Unknown for every input.
C10_IsoOrUnknown ==
    call = "normalize_date" => (ret.s = Unknown \/ IsIsoDate(ret.s))

\* The year a date value carries: the year of the date the normaliser reads
\* from it, else its leading four digits; -1 when it has neither.
ParseableYear(v) ==
    LET n == normalize_date(v)
        dash == CHOOSE i \in 1..Len(n) : n[i] = "-" /\ \A j \in 1..(i - 1) : n[j] # "-"
    IN IF n # Unknown THEN digits_value(SubSeq(n, 1, dash - 1), 0)
       ELSE IF v.t = "str" /\ NumberAt("%Y", v.s, 1) # {}
       THEN digits_value(SubSeq(v.s, 1, 4), 0)
       ELSE -1

\* C5: the window filter drops a date exactly when it carries a parseable
\* year below the lower bound.
C5_DropsIffYearBelowBound ==
    call = "_is_within_last_5_years" =>
        (ret = PyBool(FALSE)
            <=> (ParseableYear(arg) >= 0 /\ ParseableYear(arg) < CurrentYear - 5))

\* ------------------------------------------------------------------------
\* Properties of the pipelines
\* ------------------------------------------------------------------------

\* A field that holds a value: neither empty nor Unknown.
Known(e, k) == ~is_in(get(e, k), {<<>>, Unknown})

\* The completeness score of the specification: 3 for a date other than
\* Unknown, 2 for a known event_type other than Other, 1 for a known
\* counterparty other than N/A, 1 for a known amount other than Undisclosed.
Completeness(e) ==
    (IF ~is_in(get(e, "date"), {Unknown}) THEN 3 ELSE 0)
    + (IF Known(e, "event_type") /\ ~is_in(get(e, "event_type"), {Other}) THEN 2 ELSE 0)
    + (IF Known(e, "counterparty") /\ ~is_in(get(e, "counterparty"), {NA}) THEN 1 ELSE 0)
    + (IF Known(e, "amount") /\ ~is_in(get(e, "amount"), {Undisclosed}) THEN 1 ELSE 0)

\* The day of an ISO date as one number, 0 for Unknown: later dates are larger.
DateRank(e) ==
    IF IsIsoDate(e.date.s)
    THEN digits_value(remove_char(e.date.s, "-"), 0)
    ELSE 0

\* C3: in the list generate_corporate_events returns, an event of higher
\* completeness precedes one of lower completeness, and among events of
\* equal completeness a later date precedes an earlier one, Unknown last.
C3_CompletenessThenRecency ==
    pc = "done" =>
        \A i, j \in 1..Len(final) :
            i < j =>
                \/ Completeness(final[i]) > Completeness(final[j])
                \/ /\ Completeness(final[i]) = Completeness(final[j])
                   /\ DateRank(final[i]) >= DateRank(final[j])

\* C4: no event generate_corporate_events returns has a known year below the
\* current year minus the configured retention.
C4_NoEventBelowWindow ==
    pc = "done" =>
        \A i \in 1..Len(final) :
            final[i].date.s # Unknown => ParseableYear(final[i].date) >= CurrentYear - years

\* C6: every event generate_verified_events_ai returns has confidence A, B
\* or C.
C6_ConfidenceIsTier ==
    pc = "saved" =>
        \A i \in 1..Len(final) : is_in(final[i].confidence, {<<"A">>, <<"B">>, <<"C">>})

\* ------------------------------------------------------------------------
\* Properties of partial dates and field aliases
\* ------------------------------------------------------------------------

\* C11: normalize_date turns a four-digit year into January 1 of that year
\* and a month name followed by a year into a date of that year; neither
\* becomes Unknown.
C11_YearOnlyAndMonthYear ==
    (call = "normalize_date" /\ arg.t = "str") =>
        /\ arg.s \in YearTexts => ret.s = arg.s \o <<"-", "0", "1", "-", "0", "1">>
        /\ \A y \in YearTexts, w \in MonthWords \ {<<"S", "e", "p", "t">>} :
               arg.s = w \o <<" ">> \o y =>
                   ret.s # Unknown /\ ParseableYear(ret) = digits_value(y, 0)

\* C12: every event generate_verified_events_ai builds from an extraction
\* that has core text, no date field and a valid date_announced carries that
\* date.
C12_DateAnnouncedAlias ==
    pc = "saved" =>
        \A k \in 1..Len(structured_events) :
            (/\ core_text(structured_events[k]) \notin {<<>>, Unknown}
             /\ "date" \notin DOMAIN structured_events[k]
             /\ IsIsoDate(structured_events[k].date_announced.s))
            => \E i \in 1..Len(final) :
                   /\ final[i].title.s = core_text(structured_events[k])
                   /\ final[i].date = structured_events[k].date_announced

\* The aliases of the core text.
CoreAliases == {"title", "description", "event_name"}

\* The positions of the raw records of which an alias of the core text holds
\* non-empty text after cleaning.
HoldsText(events) ==
    {k \in 1..Len(events) : \E a \in CoreAliases : clean_text(get(events[k], a)) # <<>>}

\* C13: merge_and_clean_events drops a raw record exactly when none of title,
\* description and event_name holds non-empty text after cleaning: every
\* record that holds such text has an event with that text as title (up to
\* letter case, where a duplicate was merged), and there are no more events
\* than such records.
C13_DroppedIffNoCoreText ==
    call = "merge_and_clean_events" =>
        /\ Len(ret) <= Cardinality(HoldsText(arg))
        /\ \A k \in HoldsText(arg) :
               \E i \in 1..Len(ret), a \in CoreAliases :
                   lower(ret[i].title.s) = lower(clean_text(get(arg[k], a)))

\* ------------------------------------------------------------------------
\* Properties of the sources and the provider chains
\* ------------------------------------------------------------------------

\* C14: once the legacy pipeline has asked its sources, the events it hands
\* on are exactly what the sources returned, in the order they returned it;
\* a source that failed discards nothing another source returned.
C14_SourcesConcatenated ==
    pc \in {"refine", "merge", "done"} => raw_events = returned

\* C15: when Gemini listed nothing for any month or year,
\* generate_verified_corporate_events raises nothing and returns the empty
\* event list (verified_count 0).
C15_EmptyRunReturnsEmpty ==
    [][(pc = "verified" /\ pc' # "verified" /\ all_events = <<>>)
          => (raised' = "none" /\ pc' = "done" /\ final' = <<>>)]_vars

\* C16: when Gemini listed events, generate_verified_corporate_events runs to
\* its return without raising and returns the reconciled list as events
\* (verified_count is its length).
C16_VerifiedRunReturnsDocument ==
    [][(pc = "verified" /\ pc' # "verified" /\ all_events # <<>>)
          => (raised' = "none" /\ pc' = "done"
              /\ final' = clean_verified(all_events))]_vars

\* The chain of the entry point that is running.
Chain == IF pc \in {"fetch_news", "extract", "saved"} THEN ExtractionModels ELSE AI_MODELS

\* C17: in a call of a provider chain the providers are invoked in the
\* configured order, each at most once, and only the last one invoked can
\* have succeeded: provider k+1 is invoked only after providers 1..k failed
\* and none after a success.
C17_ProvidersInOrder ==
    /\ Len(invoked) <= Len(Chain)
    /\ \A i \in 1..Len(invoked) : invoked[i].model = Chain[i]
    /\ \A i \in 1..(Len(invoked) - 1) : ~invoked[i].ok

\* C17 witness: the legacy run has left the chain after its third provider
\* answered, the first two having failed.
C17_Witness ==
    /\ pc = "merge"
    /\ Len(invoked) = 3
    /\ ~invoked[1].ok /\ ~invoked[2].ok /\ invoked[3].ok
    /\ invoked[3].model = "anthropic/claude-3-haiku"

\* The step in which the last provider of a chain has failed after all the
\* others.
AllProvidersFailed ==
    /\ invoked' # invoked
    /\ Len(invoked') = Len(Chain)
    /\ \A i \in 1..Len(invoked') : ~invoked'[i].ok

TierOfSource(e) ==
    LET source == lower(py_str(get_default(e, "source", Empty)))
    IN IF \E m \in {<<"g", "e", "m", "i", "n", "i">>, <<"f", "i", "n", "n", "h", "u", "b">>, <<"s", "e", "c">>, <<"r", "e", "u", "t", "e", "r", "s">>, <<"b", "l", "o", "o", "m", "b", "e", "r", "g">>} : contains(source, m)
       THEN <<"A">>
       ELSE IF \E m \in {<<"p", "r", "n", "e", "w", "s", "w", "i", "r", "e">>, <<"b", "u", "s", "i", "n", "e", "s", "s", "w", "i", "r", "e">>, <<"c", "n", "b", "c">>, <<"f", "o", "r", "b", "e", "s">>} : contains(source, m)
       THEN <<"B">>
       ELSE <<"C">>

\* C20: validate_event_confidence returns as many records as it was given;
\* a record that arrives with confidence A, B or C is returned as it was,
\* any other record is returned with exactly its confidence set to the tier
\* of its source (A, else B, else C, by markers found in the source text
\* whatever its letter case); a second application changes nothing.
C20_TierBySource ==
    call = "validate_event_confidence" =>
        /\ Len(ret) = Len(passed)
        /\ \A k \in 1..Len(passed) :
               IF get(passed[k], "confidence") \in {Str(<<"A">>), Str(<<"B">>), Str(<<"C">>)}
               THEN ret[k] = passed[k]
               ELSE /\ DOMAIN ret[k] = DOMAIN passed[k] \cup {"confidence"}
                    /\ ret[k].confidence = Str(TierOfSource(passed[k]))
                    /\ \A f \in DOMAIN passed[k] \ {"confidence"} :
                           ret[k][f] = passed[k][f]
        /\ again # <<>> => again[1] = ret

\* C20 witness: a record from PRNewswire that arrived with confidence High
\* has been scored B, twice.
C20_Witness ==
    /\ call = "validate_event_confidence"
    /\ again # <<>>
    /\ Len(passed) = 1
    /\ get(passed[1], "confidence") = Str(<<"H", "i", "g", "h">>)
    /\ get(passed[1], "source") = Str(<<"P", "R", "N", "e", "w", "s", "w", "i", "r", "e">>)
    /\ ret[1].confidence = Str(<<"B">>)

\* ------------------------------------------------------------------------
\* Properties of the ordering
\* ------------------------------------------------------------------------

\* C22: the completeness score sort_events computes for every event that
\* merge_and_clean_events hands to it is the reference score; an amount of
\* Undisclosed and a counterparty of N/A or of no text earn no point.
C22_ScoreIsReference ==
    call = "merge_and_clean_events" =>
        \A i \in 1..Len(ret) : completeness_score(ret[i]) = Completeness(ret[i])

\* The list merge_and_clean_events hands to sort_events.
Unsorted == deduplicate_events(clean_all(passed))

\* Event a goes before event b: a higher score, or the same score and a
\* later date, a date of Unknown being the earliest.
GoesBefore(a, b) ==
    \/ completeness_score(a) > completeness_score(b)
    \/ completeness_score(a) = completeness_score(b) /\ DateRank(a) > DateRank(b)

\* C23: sort_events returns its input rearranged so that an event of higher
\* score, or of the same score and a later date (Unknown earliest), comes
\* first, and events of the same score and date stay in their input order;
\* no returned event has the key _sort_date.
C23_StableSortedPermutation ==
    call = "merge_and_clean_events" =>
        /\ Len(ret) = Len(Unsorted)
        /\ \E p \in [1..Len(ret) -> 1..Len(ret)] :
               /\ \A i, j \in 1..Len(ret) : i # j => p[i] # p[j]
               /\ \A i \in 1..Len(ret) : ret[i] = Unsorted[p[i]]
               /\ \A i, j \in 1..Len(ret) :
                      i < j => \/ GoesBefore(ret[i], ret[j])
                               \/ ~GoesBefore(ret[j], ret[i]) /\ p[i] < p[j]
        /\ \A i \in 1..Len(ret) : "_sort_date" \notin DOMAIN ret[i]

\* C23 witness: three events of the same score were sorted; the two of the
\* same date were moved before the one without a date and kept their order.
C23_Witness ==
    /\ call = "merge_and_clean_events"
    /\ Len(ret) = 3 /\ Len(Unsorted) = 3
    /\ ret = <<Unsorted[2], Unsorted[3], Unsorted[1]>>
    /\ ret[1] # ret[2]
    /\ ~GoesBefore(ret[1], ret[2]) /\ ~GoesBefore(ret[2], ret[1])
    /\ GoesBefore(ret[2], ret[3])

\* ------------------------------------------------------------------------
\* Properties of the provider answers
\* ------------------------------------------------------------------------

\* The step in which a chain accepts the answer of a provider.
AnswerAccepted == invoked' # invoked /\ invoked'[Len(invoked')].ok

\* C24: a chain accepts an answer only if events were parsed from it: the
\* extraction chain takes an event from it, and what refine_events_with_ai
\* returns is the refinement by an answer that holds at least one event; an
\* answer without events sends the chain to the next provider.
C24_EmptyAnswerIsFailure ==
    [][AnswerAccepted =>
          IF pc = "extract"
          THEN Len(structured_events') = Len(structured_events) + 1
          ELSE \E ai_events \in AiAnswers \ {<<>>} :
                   refined' = refine_from(raw_events, ai_events, 1)]_vars

\* The step in which the attempt with a provider fails.
AttemptFailed == invoked' # invoked /\ ~invoked'[Len(invoked')].ok

\* C25: a failed attempt leaves the input of the chain and the events
\* gathered so far as they were, and what is returned when a provider
\* succeeds, whatever number of providers failed before it, is what that
\* provider's answer makes of the input alone: the raw events refined by the
\* answer, or the answer's event with the fallback fields of the news item.
C25_NoStateSurvivesAttempt ==
    [][/\ AttemptFailed =>
            /\ raw_events' = raw_events
            /\ news' = news
            /\ structured_events' = structured_events
       /\ AnswerAccepted =>
            IF pc = "extract"
            THEN /\ news' = news
                 /\ \E answer \in ModelEvents :
                        structured_events' =
                            Append(structured_events,
                                   extract_event_fields_ai(news[item], answer))
            ELSE /\ raw_events' = raw_events
                 /\ \E ai_events \in AiAnswers :
                        refined' = refine_from(raw_events, ai_events, 1)]_vars

\* C25 witness: the third provider of refine_events_with_ai answered after
\* two failures, and its answer changed the raw events.
C25_Witness ==
    /\ pc = "merge"
    /\ Len(invoked) = 3 /\ invoked[3].ok
    /\ refined # <<>>
    /\ refined # raw_events
    /\ \E ai_events \in AiAnswers : refined = refine_from(raw_events, ai_events, 1)

\* ------------------------------------------------------------------------
\* Properties of slash dates
\* ------------------------------------------------------------------------

\* C26: normalize_date reads a slash date a/b/YYYY whose first number is at
\* most 12 as month a, day b: 01/02/2024 is January 2 and 01/13/2024 is
\* January 13, not Unknown.
C26_MonthFirstSlashDate ==
    (call = "normalize_date" /\ arg.t = "str") =>
        \A a \in DayTexts, b \in MonthTexts, y \in YearTexts :
            (/\ arg.s = a \o <<"/">> \o b \o <<"/">> \o y
             /\ digits_value(a, 0) <= 12
             /\ ValidDate([Y |-> digits_value(y, 0), m |-> digits_value(a, 0),
                           d |-> digits_value(b, 0)]))
            => ret.s = y \o <<"-">> \o ZeroPad(a, 2) \o <<"-">> \o ZeroPad(b, 2)

\* ------------------------------------------------------------------------
\* Properties of the choice of pipeline
\* ------------------------------------------------------------------------

\* C27: generate_corporate_events starts with the verified pipeline exactly
\* when USE_VERIFIED_PIPELINE is set; an exception of the verified pipeline
\* does not end the run but starts the legacy pipeline, with nothing of the
\* verified run in the result; the legacy pipeline starts only when the
\* verified one is switched off or has raised; and the result is that of
\* the verified pipeline or that of the legacy pipeline.
C27_VerifiedFailureFallsBack ==
    [][/\ pc = "start" => pc' = IF USE_VERIFIED_PIPELINE THEN "verified" ELSE "scrape"
       /\ (pc = "verified" /\ pc' # "verified") =>
             \/ raised' # "none" /\ pc' = "scrape" /\ final' = <<>> /\ raw_events' = <<>>
             \/ raised' = "none" /\ pc' = "done" /\ final' = clean_verified(all_events)
       /\ pc' = "scrape" => (~USE_VERIFIED_PIPELINE \/ raised' # "none")
       /\ (pc # "done" /\ pc' = "done") =>
             \/ pc = "verified"
             \/ /\ pc = "merge"
                /\ final' = analyzer_sort_events(merge_and_clean_events(refined))]_vars

\* C27 witness: the verified pipeline was tried and raised, and the legacy
\* pipeline has returned an event.
C27_Witness ==
    /\ pc = "done"
    /\ USE_VERIFIED_PIPELINE
    /\ raised = "KeyError"
    /\ final # <<>>
    /\ final = analyzer_sort_events(merge_and_clean_events(refined))

\* ------------------------------------------------------------------------
\* Properties of the periods of the verified pipeline
\* ------------------------------------------------------------------------

\* C28: generate_verified_corporate_events goes through its periods one by
\* one, and for a period for which Gemini lists nothing the call of the
\* secondary provider is made: a provider of the fallback chain is asked for
\* the events of that period.
C28_SecondaryAskedForEmptyPeriod ==
    [][(/\ pc = "verified"
        /\ period' = period + 1
        /\ all_events' = all_events)
       => invoked' # invoked]_vars

\* ------------------------------------------------------------------------
\* Properties of the refined events
\* ------------------------------------------------------------------------

\* The raw events a refined event can come from: those of its title, which
\* no provider answer sets.
RawOf(e) == {k \in 1..Len(raw_events) : get(raw_events[k], "title") = get(e, "title")}

\* C29: every event refine_events_with_ai returns has the source of the raw
\* event it was made from.
C29_SourcePreserved ==
    pc = "merge" =>
        \A i \in 1..Len(refined) :
            \E k \in RawOf(refined[i]) :
                get(refined[i], "source") = get(raw_events[k], "source")

\* A field of an event holds a value: text other than the empty text and
\* Unknown.
HasValue(e, field) ==
    field \in DOMAIN e /\ e[field].t = "str" /\ e[field].s \notin {<<>>, Unknown}

\* C30: every event refine_events_with_ai returns still has a value in each
\* of date, description, type, counterparty and amount (under either of
\* the names the adapters use for the last two) in which the raw event it
\* was made from had one.
C30_KnownFieldsStayKnown ==
    pc = "merge" =>
        \A i \in 1..Len(refined) :
            \E k \in RawOf(refined[i]) :
                \A field \in {"date", "description", "type", "counterparty", "other_party",
                               "amount", "investment"} :
                    HasValue(raw_events[k], field) => HasValue(refined[i], field)

\* ------------------------------------------------------------------------
\* Properties of the text-based event generator
\* ------------------------------------------------------------------------

\* C21: generate_corporate_events called with a text that is empty or blank
\* skips the extraction from the text, asks the two other providers, and
\* returns a text that is not empty and holds at least one
\* "Event Description" entry.
C21_EmptyTextStillReturnsEvents ==
    (pc = "returned" /\ strip(passed.s) = <<>>) =>
        /\ Len(invoked) = 2
        /\ invoked[1].model = "anthropic/claude-3.5-sonnet"
        /\ invoked[2].model = "perplexity/sonar-pro"
        /\ ret.s # <<>>
        /\ contains(ret.s, <<"E", "v", "e", "n", "t", " ", "D", "e", "s", "c", "r", "i", "p", "t", "i", "o", "n">>)

=============================================================================
